---- MODULE Spec2Model ----
(***************************************************************************)
(* The Channel of zod-rpc (src/channel.ts, kept as src/unnamed/part_023,   *)
(* lines 1-284): method registry, pending-call table, outbound invoke,     *)
(* inbound dispatch, connect and disconnect.                               *)
(*                                                                         *)
(* JavaScript runs each piece of code between two awaits to completion, so *)
(* one action is one such piece: the start of an operation up to its first *)
(* await, or the resumption from an await up to the next one.  Transports, *)
(* peers, handlers and timers are the environment: what they answer is     *)
(* drawn with \E.                                                          *)
(***************************************************************************)
EXTENDS Integers, Sequences, FiniteSets, Bags, TLC

(* ------------------------------ bounds --------------------------------- *)
\* send() calls made directly on the built-in transports
MaxSends == 2
\* invoke() calls made on the Channel
MaxCalls == 2
\* distinct values the time-and-random part of a trace id can take
MaxNonce == 2
\* inbound request envelopes the Channel dispatches
MaxRequests == 1
\* connect() calls
MaxConnects == 1
\* disconnect() calls
MaxDisconnects == 1
\* publishMethod() calls
MaxPublish == 1
\* HTTP requests given to the zodRpc middleware
MaxPosts == 2
\* connect() and disconnect() calls made directly on the WebSocket transport
MaxSocketCalls == 3
\* connect() calls where transports accumulate over several of them
MaxReconnects == 2
\* publishMethod() calls where one publish follows another
MaxRepublish == 2

(* --------------------------- program values ---------------------------- *)
\* constructor(channelId, defaultTimeout = 30000)
ChannelId == "ch"
DefaultTimeout == 30000

TransportIds == {"t1", "t2"}
TargetIds == {"svcA", "svcB"}
MethodIds == {"m1"}
PeerId == "peer"

\* Payload values. A schema's parse() returns the parsed value or throws.
Values == {"good", "bad"}
Fail == "<ZodError>"
\* "none" is an absent (undefined) caller schema; "any" accepts every value;
\* "strict" accepts only "good".
CallerSchemas == {"none", "strict"}
MethodSchemas == {"any", "strict"}

\* "trim" accepts every value and returns it transformed.
Transformed(v) == v \o "'"
Parse(schema, v) ==
    IF schema = "strict" /\ v # "good" THEN Fail
    ELSE IF schema = "trim" THEN Transformed(v)
    ELSE v

\* An optional number is a sequence of length 0 (undefined) or 1.
Timeouts == {<<>>, <<0>>, <<50>>}

(* ------------------------------ errors --------------------------------- *)
\* A message is its template text and the values interpolated into it.
Msg(text, ms, id) == [text |-> text, ms |-> ms, id |-> id]
NoMsg == Msg("", 0, "")
NoTrace == <<"", 0>>

\* new RPCError(code, message, traceId), and its subclasses' names.
RPCError(name, code, message, traceId) ==
    [name |-> name, code |-> code, message |-> message, traceId |-> traceId]
NoError == RPCError("", "", NoMsg, NoTrace)

ValidationError(message, traceId) ==
    RPCError("ValidationError", "VALIDATION_ERROR", message, traceId)
TransportError(message, traceId) ==
    RPCError("TransportError", "TRANSPORT_ERROR", message, traceId)
MethodNotFoundError(methodId, traceId) ==
    RPCError("MethodNotFoundError", "METHOD_NOT_FOUND",
             Msg("Method '{id}' not found", 0, methodId), traceId)
TimeoutError(message, traceId) ==
    RPCError("TimeoutError", "TIMEOUT_ERROR", message, traceId)
\* new Error(text): no code, no traceId.
PlainError(text) == RPCError("Error", "", Msg(text, 0, ""), NoTrace)

\* RPCError.toJSON(): the payload of an error envelope.
toJSON(e) ==
    [name |-> e.name, code |-> e.code, message |-> e.message, traceId |-> e.traceId]

(* ----------------------------- envelopes ------------------------------- *)
\* A payload is a value (val) or a serialized error (err).
ValPayload(v) == [val |-> v, err |-> NoError]
ErrPayload(e) == [val |-> "", err |-> e]

RPCMessage(callerId, targetId, traceId, methodId, payload, type) ==
    [callerId |-> callerId, targetId |-> targetId, traceId |-> traceId,
     methodId |-> methodId, payload |-> payload, type |-> type]

\* `${channelId}-${Date.now()}-${Math.random()...}`: the time and the random
\* part are one drawn value.
generateTraceId(nonce) == <<ChannelId, nonce>>
TraceIds == {generateTraceId(n) : n \in 1..MaxNonce}
PeerTrace == <<PeerId, 1>>

\* `${targetId}:${methodId}`
Key(targetId, methodId) == targetId \o ":" \o methodId

VARIABLES
    methods,       \* Channel.methods: key -> MethodDefinition
    pendingCalls,  \* Channel.pendingCalls: traceId -> the call whose resolve,
                   \* reject and timer the entry holds
    services,      \* Channel.services: service id -> snapshot (set of method ids)
    transports,    \* Channel.transports, in insertion order
    connected,     \* Channel.connected
    handlers,      \* transports on which onMessage(handleMessage) was called
    calls,         \* one record per invoke(): its promise and its timer
    sent,          \* bag of [tr, msg]: every transport.send(msg) made
    connectTask,   \* the running connect(): its arguments and position
    disconnectTask,\* the running disconnect(): its position
    requests,      \* one record per inbound request: handleRequest's position
    budget,        \* operations still allowed by the bounds
    client,        \* the closure of createRPCClient: currentDefaultTarget and
                   \* the targetId each service's methods captured
    wire,          \* the built-in transports: readyState / connected flag,
                   \* deliveries attempted underneath, send() promises, and
                   \* the messages handed to the registered handler
    web            \* one record per HTTP request given to the zodRpc
                   \* middleware: its position and what it answered

vars == <<methods, pendingCalls, services, transports, connected, handlers,
          calls, sent, connectTask, disconnectTask, requests, budget,
                   client, wire, web>>

\* The variables of the Channel.
chanVars == <<methods, pendingCalls, services, transports, connected, handlers,
              calls, sent, connectTask, disconnectTask, requests, budget>>

(* --------------------------- small helpers ----------------------------- *)
Range(seq) == {seq[i] : i \in DOMAIN seq}
\* Set.add keeps insertion order and ignores a value already present.
SetAdd(seq, t) == IF t \in Range(seq) THEN seq ELSE Append(seq, t)
EmptyMap == [x \in {} |-> 0]
MapSet(m, k, v) == [x \in DOMAIN m \cup {k} |-> IF x = k THEN v ELSE m[x]]
MapDelete(m, k) == [x \in DOMAIN m \ {k} |-> m[x]]

\* A promise settles once: resolve and reject of a settled promise do nothing.
Pending == [state |-> "pending", value |-> "", error |-> NoError]
Resolved(v) == [state |-> "resolved", value |-> v, error |-> NoError]
Rejected(e) == [state |-> "rejected", value |-> "", error |-> e]
Settle(call, outcome) ==
    IF call.outcome.state = "pending" THEN [call EXCEPT !.outcome = outcome] ELSE call
\* clearTimeout(handle): a timer that fired or was cleared stays as it is.
ClearTimeout(call) ==
    IF call.timer = "armed" THEN [call EXCEPT !.timer = "cancelled"] ELSE call

(* ---------------------------- method registry -------------------------- *)
MethodDefinition(targetId, id, input, output) ==
    [targetId |-> targetId, id |-> id, input |-> input, output |-> output]
Definitions ==
    {MethodDefinition(t, m, i, o) :
        t \in TargetIds, m \in MethodIds, i \in MethodSchemas, o \in MethodSchemas}

\* publishMethod(definition): methods.set(`${targetId}:${id}`, definition)
PublishMethod(definition) ==
    /\ budget.publishes > 0
    /\ methods' = MapSet(methods, Key(definition.targetId, definition.id), definition)
    /\ budget' = [budget EXCEPT !.publishes = @ - 1]
    /\ UNCHANGED <<client, wire, web>>
    /\ UNCHANGED <<pendingCalls, services, transports, connected, handlers,
                   calls, sent, connectTask, disconnectTask, requests>>

\* this.methods.get(`${targetId}:${methodId}`), as invoke and handleRequest
\* look a method up.
NoDefinition == [targetId |-> "", id |-> "", input |-> "", output |-> ""]
Lookup(targetId, methodId) ==
    IF Key(targetId, methodId) \in DOMAIN methods
    THEN methods[Key(targetId, methodId)]
    ELSE NoDefinition

\* A method id here has no '.', so its short name is the id itself.
MethodInfo(id) == [id |-> id, name |-> id]

\* Mutant of publishServiceInfo: the snapshot lists what was registered when
\* the running connect() was invoked.
publishServiceInfoAsInvoked ==
    MapSet(services, ChannelId,
           IF connectTask.idx > 0 THEN connectTask.invokedWith
           ELSE {MethodInfo(methods[k].id) : k \in DOMAIN methods})

\* publishServiceInfo(): the snapshot of the registry, stored under channelId.
publishServiceInfo ==
    MapSet(services, ChannelId,
           {MethodInfo(methods[k].id) : k \in DOMAIN methods})

\* What publishServiceInfo() would list if it ran now.
RegisteredInfo == {MethodInfo(methods[k].id) : k \in DOMAIN methods}

\* getAvailableMethods(serviceId)
getAvailableMethods(serviceId) ==
    IF serviceId \in DOMAIN services THEN services[serviceId] ELSE {}

(* ------------------------------ connect -------------------------------- *)
\* The running connect(): its arguments, the transport it awaits (idx) and,
\* for stating what its snapshot is compared with, what the registry listed
\* when it was invoked.
IdleConnect == [args |-> <<>>, idx |-> 0, invokedWith |-> {}]
ConnectArgs == {<<>>, <<"t1">>, <<"t2">>, <<"t1", "t2">>}

\* Mutant of ConnectStart: the Channel is marked connected and the snapshot
\* taken before the first transport's connect() is awaited.
ConnectStartMarksEarly(args) ==
    /\ connectTask.idx = 0
    /\ budget.connects > 0
    /\ budget' = [budget EXCEPT !.connects = @ - 1]
    /\ UNCHANGED <<client, wire, web>>
    /\ connected' = TRUE
    /\ services' = publishServiceInfo
    /\ IF args = <<>>
       THEN UNCHANGED <<transports, handlers, connectTask>>
       ELSE /\ transports' = SetAdd(transports, args[1])
            /\ handlers' = handlers \cup {args[1]}
            /\ connectTask' = [args |-> args, idx |-> 1, invokedWith |-> RegisteredInfo]
    /\ UNCHANGED <<methods, pendingCalls, calls, sent, disconnectTask, requests>>

\* connect(...transports) up to its first await: with no argument it marks the
\* Channel connected at once; otherwise it adds the first transport, registers
\* the dispatch handler on it and awaits its connect().
ConnectStart(args) ==
    /\ connectTask.idx = 0
    /\ budget.connects > 0
    /\ budget' = [budget EXCEPT !.connects = @ - 1]
    /\ UNCHANGED <<client, wire, web>>
    /\ IF args = <<>>
       THEN /\ connected' = TRUE
            /\ services' = publishServiceInfo
            /\ UNCHANGED <<transports, handlers, connectTask>>
       ELSE /\ transports' = SetAdd(transports, args[1])
            /\ handlers' = handlers \cup {args[1]}
            /\ connectTask' = [args |-> args, idx |-> 1, invokedWith |-> RegisteredInfo]
            /\ UNCHANGED <<connected, services>>
    /\ UNCHANGED <<methods, pendingCalls, calls, sent, disconnectTask, requests>>

\* The awaited transport.connect() settles: rejected, connect() throws and
\* stops; resolved, the loop goes on to the next transport or, after the last,
\* marks the Channel connected and takes the snapshot.
ConnectResume(ok) ==
    /\ connectTask.idx > 0
    /\ IF ~ok
       THEN /\ connectTask' = IdleConnect
            /\ UNCHANGED <<transports, handlers, connected, services>>
       ELSE IF connectTask.idx < Len(connectTask.args)
       THEN /\ transports' = SetAdd(transports, connectTask.args[connectTask.idx + 1])
            /\ handlers' = handlers \cup {connectTask.args[connectTask.idx + 1]}
            /\ connectTask' = [connectTask EXCEPT !.idx = @ + 1]
            /\ UNCHANGED <<connected, services>>
       ELSE /\ connected' = TRUE
            /\ services' = publishServiceInfo
            /\ connectTask' = IdleConnect
            /\ UNCHANGED <<transports, handlers>>
    /\ UNCHANGED <<methods, pendingCalls, calls, sent, disconnectTask, requests,
                   budget,
                   client, wire, web>>

(* ----------------------------- disconnect ------------------------------ *)
\* Mutant of DrainCall: the entry is rejected but its timer is left armed.
DrainCallKeepsTimer(c) ==
    IF \E tid \in DOMAIN pendingCalls : pendingCalls[tid] = c
    THEN LET tid == CHOOSE t \in DOMAIN pendingCalls : pendingCalls[t] = c
         IN Settle(calls[c],
                   Rejected(TimeoutError(Msg("Connection closed", 0, ""), tid)))
    ELSE calls[c]

\* The pending-call loop of disconnect(): every entry's timer is cleared and
\* its reject is called with TimeoutError('Connection closed', traceId).
DrainCall(c) ==
    IF \E tid \in DOMAIN pendingCalls : pendingCalls[tid] = c
    THEN LET tid == CHOOSE t \in DOMAIN pendingCalls : pendingCalls[t] = c
         IN Settle(ClearTimeout(calls[c]),
                   Rejected(TimeoutError(Msg("Connection closed", 0, ""), tid)))
    ELSE calls[c]

\* disconnect() up to its first await: drains and clears the pending table,
\* then awaits the first transport's disconnect(); with no transport attached
\* it finishes at once.
DisconnectStart ==
    /\ disconnectTask = 0
    /\ budget.disconnects > 0
    /\ budget' = [budget EXCEPT !.disconnects = @ - 1]
    /\ UNCHANGED <<client, wire, web>>
    /\ calls' = [c \in DOMAIN calls |-> DrainCall(c)]
    /\ pendingCalls' = EmptyMap
    /\ IF transports = <<>>
       THEN /\ connected' = FALSE
            /\ UNCHANGED <<transports, disconnectTask>>
       ELSE /\ disconnectTask' = 1
            /\ UNCHANGED <<transports, connected>>
    /\ UNCHANGED <<methods, services, handlers, sent, connectTask, requests>>

\* The awaited transport.disconnect() settles: rejected, disconnect() throws
\* and stops (the set is not cleared); resolved, the loop goes on over the live
\* set or, at its end, clears the set and marks the Channel disconnected.
DisconnectResume(ok) ==
    /\ disconnectTask > 0
    /\ IF ~ok
       THEN /\ disconnectTask' = 0
            /\ UNCHANGED <<transports, connected>>
       ELSE IF disconnectTask < Len(transports)
       THEN /\ disconnectTask' = disconnectTask + 1
            /\ UNCHANGED <<transports, connected>>
       ELSE /\ transports' = <<>>
            /\ connected' = FALSE
            /\ disconnectTask' = 0
    /\ UNCHANGED <<methods, pendingCalls, services, handlers, calls, sent,
                   connectTask, requests, budget,
                   client, wire, web>>

(* ------------------------------- client ------------------------------- *)
\* Nothing is built yet.
NoClient ==
    [built |-> FALSE, defaultTarget |-> "", currentDefaultTarget |-> "",
     targets |-> [s \in TargetIds |-> ""]]

(* ------------------------------- invoke -------------------------------- *)
NoMethod == MethodDefinition("", "", "", "")

\* What invoke() creates: the returned promise (outcome), the timer of the
\* remote path (timer, armed for timeoutMs; timeout is the caller's optional
\* argument), the caller's outputSchema kept by the
\* pending entry's resolve wrapper, the send() promises still unsettled
\* (sends) and those that resolved (delivered), and for the local path the method looked up and the validated
\* input its handler was called with.
NewCall(traceId, path) ==
    [traceId |-> traceId, path |-> path, outcome |-> Pending,
     timer |-> "none", timeout |-> <<>>, timeoutMs |-> 0, outputSchema |-> "none",
     sends |-> {}, delivered |-> {}, method |-> NoMethod, handlerInput |-> ""]

\* Mutant of TimeoutMs: the caller's timeout is ignored.
TimeoutMsDefaultOnly(timeout) == DefaultTimeout

\* const timeoutMs = timeout || this.defaultTimeout
TimeoutMs(timeout) ==
    IF timeout = <<>> \/ timeout[1] = 0 THEN DefaultTimeout ELSE timeout[1]

TimedOutMsg(ms) == Msg("Method call timed out after {ms}ms", ms, "")

\* The trace ids of the calls made so far.
UsedTraceIds == {calls[c].traceId : c \in DOMAIN calls}

\* Mutant of InvokeInvalid: the input is validated only after the pending
\* entry was set.
InvokeInvalidAfterRegister(traceId) ==
    /\ calls' = Append(calls,
          [NewCall(traceId, "invalid") EXCEPT !.outcome =
              Rejected(ValidationError(Msg("Input validation failed: {error}", 0, ""),
                                       traceId))])
    /\ pendingCalls' = MapSet(pendingCalls, traceId, Len(calls) + 1)
    /\ UNCHANGED sent

\* invoke(): the caller's inputSchema rejects the input.
InvokeInvalid(traceId) ==
    /\ calls' = Append(calls,
          [NewCall(traceId, "invalid") EXCEPT !.outcome =
              Rejected(ValidationError(Msg("Input validation failed: {error}", 0, ""),
                                       traceId))])
    /\ UNCHANGED <<pendingCalls, sent>>

\* Mutant of InvokeLocal: the local call also sets a pending entry.
InvokeLocalRegistersPending(traceId, localMethod, input, outputSchema) ==
    /\ calls' = Append(calls,
          IF Parse(localMethod.input, input) = Fail
          THEN [NewCall(traceId, "local") EXCEPT
                   !.method = localMethod,
                   !.outcome = Rejected(ValidationError(
                       Msg("Local method validation failed: {message}", 0, ""), traceId))]
          ELSE [NewCall(traceId, "local") EXCEPT
                   !.method = localMethod,
                   !.outputSchema = outputSchema,
                   !.handlerInput = Parse(localMethod.input, input)])
    /\ pendingCalls' = MapSet(pendingCalls, traceId, Len(calls) + 1)
    /\ UNCHANGED sent

\* invoke(): the method is registered on this Channel. Its own input schema is
\* parsed, then its handler is called and awaited; a ZodError becomes a
\* ValidationError.
InvokeLocal(traceId, localMethod, input, outputSchema) ==
    /\ calls' = Append(calls,
          IF Parse(localMethod.input, input) = Fail
          THEN [NewCall(traceId, "local") EXCEPT
                   !.method = localMethod,
                   !.outcome = Rejected(ValidationError(
                       Msg("Local method validation failed: {message}", 0, ""), traceId))]
          ELSE [NewCall(traceId, "local") EXCEPT
                   !.method = localMethod,
                   !.outputSchema = outputSchema,
                   !.handlerInput = Parse(localMethod.input, input)])
    /\ UNCHANGED <<pendingCalls, sent>>

\* Mutant of InvokeRemote: registering the new entry replaces the table.
InvokeRemoteReplacesTable(traceId, message, outputSchema, timeout) ==
    LET c == Len(calls) + 1
        call == [NewCall(traceId, "remote") EXCEPT
                    !.timer = "armed",
                    !.timeout = timeout,
                    !.timeoutMs = TimeoutMs(timeout),
                    !.outputSchema = outputSchema]
    IN  /\ pendingCalls' = MapSet(EmptyMap, traceId, c)
        /\ IF Len(transports) = 0
           THEN /\ calls' = Append(calls,
                       Settle(call, Rejected(PlainError("No transports connected"))))
                /\ UNCHANGED sent
           ELSE /\ calls' = Append(calls, [call EXCEPT !.sends = Range(transports)])
                /\ sent' = sent (+) SetToBag({[tr |-> t, msg |-> message] :
                                               t \in Range(transports)})

\* Mutant of InvokeRemote: send() is called on the first transport only.
InvokeRemoteFirstOnly(traceId, message, outputSchema, timeout) ==
    LET c == Len(calls) + 1
        call == [NewCall(traceId, "remote") EXCEPT
                    !.timer = "armed",
                    !.timeout = timeout,
                    !.timeoutMs = TimeoutMs(timeout),
                    !.outputSchema = outputSchema]
    IN  /\ pendingCalls' = MapSet(pendingCalls, traceId, c)
        /\ IF Len(transports) = 0
           THEN /\ calls' = Append(calls,
                       Settle(call, Rejected(PlainError("No transports connected"))))
                /\ UNCHANGED sent
           ELSE /\ calls' = Append(calls, [call EXCEPT !.sends = {transports[1]}])
                /\ sent' = sent (+) SetToBag({[tr |-> transports[1], msg |-> message]})

\* invoke(): the remote path. The timer is armed, the pending entry is set,
\* and then either no transport is attached and the promise is rejected, or
\* send(message) is called on every attached transport.
InvokeRemote(traceId, message, outputSchema, timeout) ==
    LET c == Len(calls) + 1
        call == [NewCall(traceId, "remote") EXCEPT
                    !.timer = "armed",
                    !.timeout = timeout,
                    !.timeoutMs = TimeoutMs(timeout),
                    !.outputSchema = outputSchema]
    IN  /\ pendingCalls' = MapSet(pendingCalls, traceId, c)
        /\ IF Len(transports) = 0
           THEN /\ calls' = Append(calls,
                       Settle(call, Rejected(PlainError("No transports connected"))))
                /\ UNCHANGED sent
           ELSE /\ calls' = Append(calls, [call EXCEPT !.sends = Range(transports)])
                /\ sent' = sent (+) SetToBag({[tr |-> t, msg |-> message] :
                                               t \in Range(transports)})

Invoke(targetId, methodId, input, inputSchema, outputSchema, timeout, nonce) ==
    LET traceId == generateTraceId(nonce)
        localKey == Key(targetId, methodId)
    IN  /\ Len(calls) < MaxCalls
        /\ IF inputSchema # "none" /\ Parse(inputSchema, input) = Fail
           THEN InvokeInvalid(traceId)
           ELSE IF localKey \in DOMAIN methods
           THEN InvokeLocal(traceId, methods[localKey], input, outputSchema)
           ELSE InvokeRemote(traceId,
                    RPCMessage(ChannelId, targetId, traceId, methodId,
                               ValPayload(input), "request"),
                    outputSchema, timeout)
        /\ UNCHANGED <<methods, services, transports, connected, handlers,
                       connectTask, disconnectTask, requests, budget,
                   client, wire>>

\* What a handler does is the environment's: it returns a value or throws.
ZodError == RPCError("ZodError", "", Msg("{issues}", 0, ""), NoTrace)
CustomError == RPCError("RPCError", "CUSTOM_ERROR", Msg("custom", 0, ""), PeerTrace)
Thrown == {PlainError("boom"), CustomError}
HandlerResults ==
    {[kind |-> "return", val |-> v, err |-> NoError] : v \in Values}
    \cup {[kind |-> "throw", val |-> "", err |-> e] : e \in Thrown}

\* A handler may also throw a ZodError of its own (an uncaught schema.parse
\* inside it) or a value that is no Error at all (throw 'oops').
ThrownString == RPCError("<string>", "", Msg("oops", 0, ""), NoTrace)
AnyThrown == Thrown \cup {ZodError, ThrownString}
AnyHandlerResults ==
    {[kind |-> "return", val |-> v, err |-> NoError] : v \in Values}
    \cup {[kind |-> "throw", val |-> "", err |-> e] : e \in AnyThrown}

IsZodError(e) == e.name = "ZodError"
IsRPCError(e) ==
    e.name \in {"RPCError", "ValidationError", "TransportError",
                "MethodNotFoundError", "TimeoutError"}
IsError(e) == IsRPCError(e) \/ IsZodError(e) \/ e.name = "Error"

\* Mutant of LocalOutcome: the caller's outputSchema is not applied.
LocalOutcomeSkipsCallerSchema(call, result) ==
    LET failed == Rejected(ValidationError(
                      Msg("Local method validation failed: {message}", 0, ""),
                      call.traceId))
    IN  IF result.kind = "throw"
        THEN IF IsZodError(result.err) THEN failed ELSE Rejected(result.err)
        ELSE IF Parse(call.method.output, result.val) = Fail THEN failed
        ELSE Resolved(Parse(call.method.output, result.val))

\* The local path after `await localMethod.handler(validatedInput)`: the
\* method's output schema, then the caller's; a ZodError becomes a
\* ValidationError and anything else thrown is rethrown as it is.
LocalOutcome(call, result) ==
    LET failed == Rejected(ValidationError(
                      Msg("Local method validation failed: {message}", 0, ""),
                      call.traceId))
    IN  IF result.kind = "throw"
        THEN IF IsZodError(result.err) THEN failed ELSE Rejected(result.err)
        ELSE IF Parse(call.method.output, result.val) = Fail THEN failed
        ELSE IF call.outputSchema # "none"
                /\ Parse(call.outputSchema, Parse(call.method.output, result.val)) = Fail
        THEN failed
        ELSE IF call.outputSchema # "none"
        THEN Resolved(Parse(call.outputSchema, Parse(call.method.output, result.val)))
        ELSE Resolved(Parse(call.method.output, result.val))

LocalHandlerDone(c, result) ==
    /\ c \in DOMAIN calls
    /\ calls[c].path = "local"
    /\ calls[c].outcome.state = "pending"
    /\ calls' = [calls EXCEPT ![c] = Settle(@, LocalOutcome(@, result))]
    /\ UNCHANGED <<methods, pendingCalls, services, transports, connected,
                   handlers, sent, connectTask, disconnectTask, requests, budget,
                   client, wire, web>>

\* The setTimeout callback of the remote path.
TimerFire(c) ==
    /\ c \in DOMAIN calls
    /\ calls[c].timer = "armed"
    /\ pendingCalls' = MapDelete(pendingCalls, calls[c].traceId)
    /\ calls' = [calls EXCEPT ![c] =
          Settle([@ EXCEPT !.timer = "fired"],
                 Rejected(TimeoutError(TimedOutMsg(@.timeoutMs), @.traceId)))]
    /\ UNCHANGED <<methods, services, transports, connected, handlers, sent,
                   connectTask, disconnectTask, requests, budget,
                   client, wire, web>>

\* What a transport's send() can reject with: the built-in transports reject
\* with a TransportError, a test transport with a plain Error.
SendFailures ==
    {TransportError(Msg("send failed", 0, ""), NoTrace), PlainError("Not connected")}

\* One send() promise of a remote invoke resolves: Promise.all goes on
\* waiting for the others, and its value is not used.
SendResolve(c, t) ==
    /\ c \in DOMAIN calls
    /\ t \in calls[c].sends
    /\ calls' = [calls EXCEPT ![c].sends = @ \ {t}, ![c].delivered = @ \cup {t}]
    /\ UNCHANGED <<methods, pendingCalls, services, transports, connected,
                   handlers, sent, connectTask, disconnectTask, requests, budget,
                   client, wire, web>>

\* Mutant of SendReject: the rejection replaces whatever the call's promise
\* had settled with.
SendRejectLastWins(c, t, failure) ==
    /\ c \in DOMAIN calls
    /\ t \in calls[c].sends
    /\ calls' = [calls EXCEPT ![c] =
          [@ EXCEPT !.sends = @ \ {t}, !.outcome = Rejected(failure)]]
    /\ UNCHANGED <<methods, pendingCalls, services, transports, connected,
                   handlers, sent, connectTask, disconnectTask, requests, budget,
                   client, wire, web>>

\* One send() promise of a remote invoke rejects, and Promise.all(sendPromises)
\* .catch(reject) calls the promise's reject. (A send() that resolves changes
\* nothing: Promise.all's value is not used.)
SendReject(c, t, failure) ==
    /\ c \in DOMAIN calls
    /\ t \in calls[c].sends
    /\ calls' = [calls EXCEPT ![c] =
          Settle([@ EXCEPT !.sends = @ \ {t}], Rejected(failure))]
    /\ UNCHANGED <<methods, pendingCalls, services, transports, connected,
                   handlers, sent, connectTask, disconnectTask, requests, budget,
                   client, wire, web>>

(* --------------------------- inbound dispatch -------------------------- *)
\* Mutant of PendingResolve: the caller's outputSchema is not applied.
PendingResolveUnvalidated(call, value) == Settle(call, Resolved(value))

\* The pending entry's resolve: the caller's outputSchema, when given, parses
\* the value; a failure rejects with a ValidationError.
PendingResolve(call, value) ==
    IF call.outputSchema # "none"
    THEN IF Parse(call.outputSchema, value) = Fail
         THEN Settle(call, Rejected(ValidationError(
                  Msg("Output validation failed: {error}", 0, ""), call.traceId)))
         ELSE Settle(call, Resolved(Parse(call.outputSchema, value)))
    ELSE Settle(call, Resolved(value))

\* Mutant of HandleResponse: the response settles whichever entry is found
\* first instead of the one under its traceId.
HandleResponseAnyEntry(message) ==
    /\ IF pendingCalls # EmptyMap
       THEN LET tid == CHOOSE t \in DOMAIN pendingCalls :
                          \A u \in DOMAIN pendingCalls : pendingCalls[t] <= pendingCalls[u]
                c == pendingCalls[tid]
            IN  /\ pendingCalls' = MapDelete(pendingCalls, tid)
                /\ calls' = [calls EXCEPT ![c] =
                      PendingResolve(ClearTimeout(@), message.payload.val)]
       ELSE UNCHANGED <<pendingCalls, calls>>
    /\ UNCHANGED <<sent, requests>>

\* handleResponse(message)
HandleResponse(message) ==
    /\ IF message.traceId \in DOMAIN pendingCalls
       THEN LET c == pendingCalls[message.traceId]
            IN  /\ pendingCalls' = MapDelete(pendingCalls, message.traceId)
                /\ calls' = [calls EXCEPT ![c] =
                      PendingResolve(ClearTimeout(@), message.payload.val)]
       ELSE UNCHANGED <<pendingCalls, calls>>
    /\ UNCHANGED <<sent, requests>>

\* handleResponse(message) as it acts on a pending table and on the call the
\* table's entry under message.traceId belongs to.
ResponseAt(table, call, message) ==
    IF message.traceId \in DOMAIN table
    THEN [table |-> MapDelete(table, message.traceId),
          call |-> PendingResolve(ClearTimeout(call), message.payload.val)]
    ELSE [table |-> table, call |-> call]

\* Mutant of InvokeLoopback: send() is called on the transports before the
\* pending entry is set.
InvokeLoopbackSendsFirst(targetId, methodId, input, inputSchema, outputSchema, timeout, nonce, value) ==
    LET traceId == generateTraceId(nonce)
        message == RPCMessage(ChannelId, targetId, traceId, methodId,
                              ValPayload(input), "request")
        reply == RPCMessage(targetId, ChannelId, traceId, methodId,
                            ValPayload(value), "response")
        c == Len(calls) + 1
        call == [NewCall(traceId, "remote") EXCEPT
                    !.timer = "armed",
                    !.timeout = timeout,
                    !.timeoutMs = TimeoutMs(timeout),
                    !.outputSchema = outputSchema,
                    !.sends = Range(transports)]
        after == ResponseAt(pendingCalls, call, reply)
    IN  /\ Len(calls) < MaxCalls
        /\ ~(inputSchema # "none" /\ Parse(inputSchema, input) = Fail)
        /\ Key(targetId, methodId) \notin DOMAIN methods
        /\ transports # <<>>
        /\ transports[1] \in handlers
        /\ sent' = sent (+) SetToBag({[tr |-> t, msg |-> message] :
                                       t \in Range(transports)})
        /\ pendingCalls' = MapSet(after.table, traceId, c)
        /\ calls' = Append(calls, after.call)
        /\ UNCHANGED <<methods, services, transports, connected, handlers,
                       connectTask, disconnectTask, requests, budget,
                       client, wire, web>>

\* invoke() on the remote path when the first attached transport answers
\* inside its send(): it hands the response to the dispatch handler before
\* send() returns, so handleResponse runs on the pending table as it stands
\* when send() is called, after pendingCalls.set.
InvokeLoopback(targetId, methodId, input, inputSchema, outputSchema, timeout, nonce, value) ==
    LET traceId == generateTraceId(nonce)
        message == RPCMessage(ChannelId, targetId, traceId, methodId,
                              ValPayload(input), "request")
        reply == RPCMessage(targetId, ChannelId, traceId, methodId,
                            ValPayload(value), "response")
        c == Len(calls) + 1
        call == [NewCall(traceId, "remote") EXCEPT
                    !.timer = "armed",
                    !.timeout = timeout,
                    !.timeoutMs = TimeoutMs(timeout),
                    !.outputSchema = outputSchema,
                    !.sends = Range(transports)]
        after == ResponseAt(MapSet(pendingCalls, traceId, c), call, reply)
    IN  /\ Len(calls) < MaxCalls
        /\ ~(inputSchema # "none" /\ Parse(inputSchema, input) = Fail)
        /\ Key(targetId, methodId) \notin DOMAIN methods
        /\ transports # <<>>
        /\ transports[1] \in handlers
        /\ sent' = sent (+) SetToBag({[tr |-> t, msg |-> message] :
                                       t \in Range(transports)})
        /\ pendingCalls' = after.table
        /\ calls' = Append(calls, after.call)
        /\ UNCHANGED <<methods, services, transports, connected, handlers,
                       connectTask, disconnectTask, requests, budget,
                       client, wire, web>>

\* A field the payload does not have reads as undefined; `x || d` gives d for
\* undefined and for the empty string alike.
Undefined == "<undefined>"
Falsy(x) == x \in {"", Undefined}

\* (message.payload as any)?.code || 'UNKNOWN_ERROR', and the same for message
ReconstructError(message) ==
    RPCError("RPCError",
             IF Falsy(message.payload.err.code) THEN "UNKNOWN_ERROR"
             ELSE message.payload.err.code,
             IF Falsy(message.payload.err.message.text)
             THEN Msg("Unknown error occurred", 0, "")
             ELSE message.payload.err.message,
             message.traceId)

\* Mutant of HandleError: the entry is removed and its timer cleared, but the
\* entry's reject is never called.
HandleErrorDropsReject(message) ==
    /\ IF message.traceId \in DOMAIN pendingCalls
       THEN LET c == pendingCalls[message.traceId]
            IN  /\ pendingCalls' = MapDelete(pendingCalls, message.traceId)
                /\ calls' = [calls EXCEPT ![c] = ClearTimeout(@)]
       ELSE UNCHANGED <<pendingCalls, calls>>
    /\ UNCHANGED <<sent, requests>>

\* Mutant of HandleError: an error envelope that matches no entry is answered
\* with a METHOD_NOT_FOUND envelope.
HandleErrorAnswersOrphan(message) ==
    IF message.traceId \in DOMAIN pendingCalls
    THEN LET c == pendingCalls[message.traceId]
         IN  /\ pendingCalls' = MapDelete(pendingCalls, message.traceId)
             /\ calls' = [calls EXCEPT ![c] =
                   Settle(ClearTimeout(@), Rejected(ReconstructError(message)))]
             /\ UNCHANGED <<sent, requests>>
    ELSE /\ sent' = sent (+) SetToBag(
                {[tr |-> t,
                  msg |-> RPCMessage(ChannelId, message.callerId, message.traceId,
                                     message.methodId,
                                     ErrPayload(MethodNotFoundError(message.methodId,
                                                                    message.traceId)),
                                     "error")] : t \in Range(transports)})
         /\ UNCHANGED <<pendingCalls, calls, requests>>

\* handleError(message)
HandleError(message) ==
    /\ IF message.traceId \in DOMAIN pendingCalls
       THEN LET c == pendingCalls[message.traceId]
            IN  /\ pendingCalls' = MapDelete(pendingCalls, message.traceId)
                /\ calls' = [calls EXCEPT ![c] =
                      Settle(ClearTimeout(@), Rejected(ReconstructError(message)))]
       ELSE UNCHANGED <<pendingCalls, calls>>
    /\ UNCHANGED <<sent, requests>>

NoMessage == RPCMessage("", "", NoTrace, "", ValPayload(""), "")

\* handleRequest's position: awaiting the handler ("handler"), awaiting the
\* send of the response on transports[idx] ("sendResponse"), awaiting the
\* send of the error envelope on transports[idx] ("sendError"), or returned.
\* The position of the handleMessage call around it: "done" when its promise
\* has resolved, "threw" when an exception left it and its promise rejected.
\* validatedOutput is set once method.output.parse(result) has returned.
NewRequest(message, method) ==
    [msg |-> message, method |-> method, pc |-> "done", idx |-> 0,
     reply |-> NoMessage, handlerInput |-> "", validatedOutput |-> <<>>]

\* Mutant of Catch: handleMessage has no catch block.
CatchRethrows(req) == req

\* The try/catch of handleMessage: whatever is thrown inside the switch is
\* logged, and handleMessage returns.
Catch(req) == IF req.pc = "threw" THEN [req EXCEPT !.pc = "done"] ELSE req

\* An envelope that is null (reading message.type throws a TypeError) and one
\* whose type no case of the switch matches.
NullMessage == RPCMessage("", "", NoTrace, "", ValPayload(""), "<null>")
UnknownTypeMessage == RPCMessage(PeerId, ChannelId, PeerTrace, "m1", ValPayload("good"), "ping")
MalformedMessages == {NullMessage, UnknownTypeMessage}

\* handleMessage(null): the TypeError is thrown inside the try block.
HandleMalformed(message) ==
    /\ Len(requests) < MaxRequests
    /\ requests' = Append(requests,
                          Catch([NewRequest(message, NoMethod) EXCEPT !.pc = "threw"]))
    /\ UNCHANGED <<pendingCalls, calls, sent>>

\* `for (const transport of this.transports) await transport.send(env)` from
\* its start to the first await: the request as it then stands, and the sends
\* made.
BeginSends(req, env, pc) ==
    IF transports = <<>>
    THEN [req |-> [req EXCEPT !.pc = "done", !.idx = 0, !.reply = env], out |-> {}]
    ELSE [req |-> [req EXCEPT !.pc = pc, !.idx = 1, !.reply = env],
          out |-> {[tr |-> transports[1], msg |-> env]}]

\* Mutant of sendError: the envelope is addressed to the request's targetId
\* instead of its callerId.
sendErrorToTarget(req, error) ==
    BeginSends(req,
               RPCMessage(ChannelId, req.msg.targetId, req.msg.traceId,
                          req.msg.methodId, ErrPayload(toJSON(error)), "error"),
               "sendError")

\* sendError(originalMessage, error) to its first await.
sendError(req, error) ==
    BeginSends(req,
               RPCMessage(ChannelId, req.msg.callerId, req.msg.traceId,
                          req.msg.methodId, ErrPayload(toJSON(error)), "error"),
               "sendError")

\* Mutant of ClassifyError: a structured error is not forwarded but wrapped
\* like any other Error.
ClassifyErrorWrapsAll(error, traceId) ==
    IF IsZodError(error) THEN ValidationError(error.message, traceId)
    ELSE RPCError("RPCError", "INTERNAL_ERROR",
                  IF IsError(error) THEN error.message
                  ELSE Msg("Unknown error", 0, ""),
                  traceId)

\* The catch block of handleRequest.
ClassifyError(error, traceId) ==
    IF IsRPCError(error) THEN error
    ELSE IF IsZodError(error) THEN ValidationError(error.message, traceId)
    ELSE RPCError("RPCError", "INTERNAL_ERROR",
                  IF IsError(error) THEN error.message
                  ELSE Msg("Unknown error", 0, ""),
                  traceId)

\* handleRequest(message) to its first await.
HandleRequest(message) ==
    LET key == Key(message.targetId, message.methodId)
        step ==
            IF key \notin DOMAIN methods
            THEN sendError(NewRequest(message, NoMethod),
                           MethodNotFoundError(message.methodId, message.traceId))
            ELSE IF Parse(methods[key].input, message.payload.val) = Fail
            THEN sendError(NewRequest(message, methods[key]),
                           ClassifyError(ZodError, message.traceId))
            ELSE [req |-> [NewRequest(message, methods[key]) EXCEPT
                              !.pc = "handler",
                              !.handlerInput =
                                  Parse(methods[key].input, message.payload.val)],
                  out |-> {}]
    IN  /\ Len(requests) < MaxRequests
        /\ requests' = Append(requests, Catch(step.req))
        /\ sent' = sent (+) SetToBag(step.out)
        /\ UNCHANGED <<pendingCalls, calls>>

\* handleRequest after `await method.handler(validatedInput)`.
RequestHandlerDone(r, result) ==
    LET req == requests[r]
        step ==
            IF result.kind = "throw"
            THEN sendError(req, ClassifyError(result.err, req.msg.traceId))
            ELSE IF Parse(req.method.output, result.val) = Fail
            THEN sendError(req, ClassifyError(ZodError, req.msg.traceId))
            ELSE BeginSends([req EXCEPT !.validatedOutput =
                                        <<Parse(req.method.output, result.val)>>],
                     RPCMessage(ChannelId, req.msg.callerId, req.msg.traceId,
                                req.msg.methodId,
                                ValPayload(Parse(req.method.output, result.val)),
                                "response"),
                     "sendResponse")
    IN  /\ r \in DOMAIN requests
        /\ req.pc = "handler"
        /\ requests' = [requests EXCEPT ![r] = Catch(step.req)]
        /\ sent' = sent (+) SetToBag(step.out)
        /\ UNCHANGED <<methods, pendingCalls, services, transports, connected,
                       handlers, calls, connectTask, disconnectTask, budget,
                   client, wire, web>>

\* The awaited send of a reply settles: resolved, the loop goes on over the
\* live transport set; rejected while sending the response, the catch block
\* classifies the failure and sendError starts; rejected while sending the
\* error envelope, the failure is logged and sendError returns.
RequestSendSettle(r, ok, failure) ==
    LET req == requests[r]
        step ==
            IF ok
            THEN IF req.idx < Len(transports)
                 THEN [req |-> [req EXCEPT !.idx = @ + 1],
                       out |-> {[tr |-> transports[req.idx + 1], msg |-> req.reply]}]
                 ELSE [req |-> [req EXCEPT !.pc = "done"], out |-> {}]
            ELSE IF req.pc = "sendResponse"
            THEN sendError(req, ClassifyError(failure, req.msg.traceId))
            ELSE [req |-> [req EXCEPT !.pc = "done"], out |-> {}]
    IN  /\ r \in DOMAIN requests
        /\ req.pc \in {"sendResponse", "sendError"}
        /\ requests' = [requests EXCEPT ![r] = Catch(step.req)]
        /\ sent' = sent (+) SetToBag(step.out)
        /\ UNCHANGED <<methods, pendingCalls, services, transports, connected,
                       handlers, calls, connectTask, disconnectTask, budget,
                   client, wire, web>>

\* What a peer can deliver.
ErrorPayloads == {ErrPayload(CustomError), ErrPayload(NoError)}
InboundMessages ==
    {RPCMessage(PeerId, ChannelId, tid, "m1", ValPayload(v), "response") :
        tid \in TraceIds \cup {PeerTrace}, v \in Values}
    \cup {RPCMessage(PeerId, ChannelId, tid, "m1", p, "error") :
        tid \in TraceIds \cup {PeerTrace}, p \in ErrorPayloads}
    \cup {RPCMessage(PeerId, t, PeerTrace, m, ValPayload(v), "request") :
        t \in TargetIds, m \in MethodIds, v \in Values}

\* The errors a serving Channel puts into error envelopes: the taxonomy's, an
\* RPCError a handler threw, and INTERNAL_ERROR made by handleRequest's catch
\* from a plain Error, whose message may be the empty string (new Error()).
StructuredErrors(traceId) ==
    {MethodNotFoundError("m1", traceId),
     ValidationError(Msg("{issues}", 0, ""), traceId),
     CustomError,
     RPCError("RPCError", "", Msg("custom", 0, ""), traceId),
     ClassifyError(PlainError("boom"), traceId),
     ClassifyError(PlainError(""), traceId)}

\* An error payload with neither code nor message.
NoFieldsPayload ==
    ErrPayload(RPCError(Undefined, Undefined, Msg(Undefined, 0, ""), NoTrace))

ErrorEnvelope(traceId, payload) ==
    RPCMessage(PeerId, ChannelId, traceId, "m1", payload, "error")
RoundTripEnvelopes ==
    {ErrorEnvelope(tid, ErrPayload(toJSON(e))) :
        tid \in TraceIds, e \in UNION {StructuredErrors(t) : t \in TraceIds}}
    \cup {ErrorEnvelope(tid, NoFieldsPayload) : tid \in TraceIds}

\* handleMessage(message): a transport holding the dispatch handler delivers.
HandleMessage(message) ==
    /\ handlers # {}
    /\ CASE message.type = "request" -> HandleRequest(message)
         [] message.type = "response" -> HandleResponse(message)
         [] message.type = "error" -> HandleError(message)
         [] message.type = "<null>" -> HandleMalformed(message)
         [] OTHER -> UNCHANGED <<pendingCalls, calls, sent, requests>>
    /\ UNCHANGED <<methods, services, transports, connected, handlers,
                   connectTask, disconnectTask, budget,
                   client, wire, web>>

(* ---------------------------- createRPCClient ------------------------- *)
\* The services given to createRPCClient are named by their ids; each has the
\* methods MethodNames, whose input schema is strict and output schema open.
MethodNames == {"get"}

\* createServiceContracts(service)[methodName]
Contract(service, methodName) ==
    [id |-> service \o "." \o methodName, input |-> "strict", output |-> "any"]

\* createRPCClient after `await channel.connect(transport)`: config's
\* defaultTarget (absent: 'auto') is copied to currentDefaultTarget, and for
\* every service the targetId its methods will use is computed once.
BuildClient(config) ==
    LET defaultTarget == IF config = <<>> THEN "auto" ELSE config[1]
    IN  /\ connected
        /\ ~client.built
        /\ client' = [built |-> TRUE,
                      defaultTarget |-> defaultTarget,
                      currentDefaultTarget |-> defaultTarget,
                      targets |-> [s \in TargetIds |->
                                     IF defaultTarget = "auto" THEN s ELSE defaultTarget]]
        /\ UNCHANGED <<chanVars, wire, web>>

\* client.setDefaultTarget(target)
SetDefaultTarget(target) ==
    /\ client.built
    /\ client' = [client EXCEPT !.currentDefaultTarget = target]
    /\ UNCHANGED <<chanVars, wire, web>>

\* The options of a method call: an optional target and an optional timeout.
CallOptions ==
    [target : {<<>>, <<"svcA">>, <<"">>}, timeout : {<<>>, <<50>>, <<0>>}]

\* Mutant of ClientCall: the method's name is passed instead of contract.id.
ClientCallBareName(service, methodName, input, options, nonce) ==
    LET contract == Contract(service, methodName)
        actualTarget ==
            IF options.target # <<>> /\ ~Falsy(options.target[1])
            THEN options.target[1]
            ELSE client.targets[service]
    IN  /\ client.built
        /\ Invoke(actualTarget, methodName, input, contract.input, contract.output,
                  options.timeout, nonce)
        /\ UNCHANGED web

\* client[serviceName][methodName](input, options):
\* actualTarget = options?.target || targetId, actualTimeout = options?.timeout
ClientCall(service, methodName, input, options, nonce) ==
    LET contract == Contract(service, methodName)
        actualTarget ==
            IF options.target # <<>> /\ ~Falsy(options.target[1])
            THEN options.target[1]
            ELSE client.targets[service]
    IN  /\ client.built
        /\ Invoke(actualTarget, contract.id, input, contract.input, contract.output,
                  options.timeout, nonce)
        /\ UNCHANGED web

(* ------------------------- built-in transports ------------------------ *)
\* WebSocketTransport, WebRTCTransport and HTTPTransport. The first two are
\* connected when the readyState of their socket / data channel is open; the
\* HTTP transport keeps a connected flag ("open" / "closed" here).
BuiltIn == {"websocket", "webrtc", "http"}
ReadyStates(k) ==
    IF k = "http" THEN {"open", "closed"}
    ELSE {"connecting", "open", "closing", "closed"}

\* Of the WebSocket transport also: autoReconnect and reconnectAttempts, the
\* reconnect timers set and not yet fired (timers), the connect() promises
\* whose open / error listeners wait on the socket (opening), the
\* disconnect() promises whose close listener waits (closing), and the
\* connect() and disconnect() calls made on it (socketCalls).
NoWire ==
    [state |-> [k \in BuiltIn |-> IF k = "http" THEN "closed" ELSE "connecting"],
     attempts |-> [k \in BuiltIn |-> 0],
     sends |-> <<>>,
     handed |-> <<>>,
     handlers |-> {},
     autoReconnect |-> TRUE,
     reconnectAttempts |-> 0,
     timers |-> 0,
     opening |-> 0,
     closing |-> 0,
     socketCalls |-> 0]

isConnected(k) == wire.state[k] = "open"

NotConnectedText(k) ==
    CASE k = "websocket" -> "WebSocket is not connected"
      [] k = "webrtc" -> "WebRTC DataChannel is not connected"
      [] k = "http" -> "HTTP transport is not connected"

\* The envelopes given to send().
SendMessages ==
    {RPCMessage(ChannelId, "svcB", generateTraceId(1), "m1", ValPayload("good"),
                "request"),
     RPCMessage(ChannelId, PeerId, PeerTrace, "m1", ValPayload("good"), "response")}

\* The socket, the data channel or the HTTP health check / disconnect() change
\* the state isConnected() reads.
SocketEvent(k, state) ==
    /\ state \in ReadyStates(k)
    /\ state # wire.state[k]
    /\ wire' = [wire EXCEPT !.state[k] = state]
    /\ UNCHANGED <<chanVars, client, web>>

\* onMessage(handler)
TransportOnMessage(k) ==
    /\ k \notin wire.handlers
    /\ wire' = [wire EXCEPT !.handlers = @ \cup {k}]
    /\ UNCHANGED <<chanVars, client, web>>

SendRecord(k, message, outcome) == [kind |-> k, msg |-> message, outcome |-> outcome]

\* Mutant of TransportSend: send() does not look at isConnected().
TransportSendUnguarded(k, message, under) ==
    /\ Len(wire.sends) < MaxSends
    /\ wire' =
          IF k = "http"
          THEN [wire EXCEPT !.attempts[k] = @ + 1,
                            !.sends = Append(@, SendRecord(k, message, Pending))]
          ELSE [wire EXCEPT
                   !.attempts[k] = @ + 1,
                   !.sends = Append(@, SendRecord(k, message,
                       IF under = "ok" /\ isConnected(k) THEN Resolved("")
                       ELSE Rejected(TransportError(
                                Msg("Failed to send message: {message}", 0, ""),
                                NoTrace))))]
    /\ UNCHANGED <<chanVars, client, web>>

\* send(message) up to its first await. Not connected, it throws a
\* TransportError before anything else. Connected, the WebSocket and WebRTC
\* transports call the underlying send(), which returns or throws, and the
\* HTTP transport calls fetch and awaits it.
TransportSend(k, message, under) ==
    /\ Len(wire.sends) < MaxSends
    /\ wire' =
          IF ~isConnected(k)
          THEN [wire EXCEPT !.sends = Append(@, SendRecord(k, message,
                   Rejected(TransportError(Msg(NotConnectedText(k), 0, ""), NoTrace))))]
          ELSE IF k = "http"
          THEN [wire EXCEPT !.attempts[k] = @ + 1,
                            !.sends = Append(@, SendRecord(k, message, Pending))]
          ELSE [wire EXCEPT
                   !.attempts[k] = @ + 1,
                   !.sends = Append(@, SendRecord(k, message,
                       IF under = "ok" THEN Resolved("")
                       ELSE Rejected(TransportError(
                                Msg("Failed to send message: {message}", 0, ""),
                                NoTrace))))]
    /\ UNCHANGED <<chanVars, client, web>>

\* HTTPTransport.send after `await fetchFn(...)`: fetch rejected, the response
\* is not ok, or it is ok and, for a request, its body is handed to the
\* registered handler.
FetchSettle(i, result) ==
    /\ i \in DOMAIN wire.sends
    /\ wire.sends[i].kind = "http"
    /\ wire.sends[i].outcome = Pending
    /\ wire' =
          CASE result = "throws" ->
                 [wire EXCEPT !.sends[i].outcome = Rejected(TransportError(
                     Msg("HTTP request failed: {message}", 0, ""), NoTrace))]
            [] result = "notok" ->
                 [wire EXCEPT !.sends[i].outcome = Rejected(TransportError(
                     Msg("HTTP request failed with status {status}: {statusText}", 0, ""),
                     NoTrace))]
            [] result = "ok" ->
                 [wire EXCEPT
                     !.sends[i].outcome = Resolved(""),
                     !.handed =
                        IF wire.sends[i].msg.type = "request" /\ "http" \in wire.handlers
                        THEN Append(@, RPCMessage(PeerId, ChannelId,
                                         wire.sends[i].msg.traceId,
                                         wire.sends[i].msg.methodId,
                                         ValPayload("good"), "response"))
                        ELSE @]
    /\ UNCHANGED <<chanVars, client, web>>

(* ------------------- WebSocketTransport: its connection ---------------- *)
maxReconnectAttempts == 5

\* connect(): resolved at once when the socket is open; otherwise an open and
\* an error listener are added and the promise waits for one of them.
WebSocketConnect ==
    /\ wire.socketCalls < MaxSocketCalls
    /\ wire' = IF isConnected("websocket")
               THEN [wire EXCEPT !.socketCalls = @ + 1]
               ELSE [wire EXCEPT !.socketCalls = @ + 1, !.opening = @ + 1]
    /\ UNCHANGED <<chanVars, client, web>>

\* disconnect(): resolved at once when the socket is not open; otherwise a
\* close listener is added and websocket.close() is called.
WebSocketDisconnect ==
    /\ wire.socketCalls < MaxSocketCalls
    /\ wire' = IF ~isConnected("websocket")
               THEN [wire EXCEPT !.socketCalls = @ + 1]
               ELSE [wire EXCEPT !.socketCalls = @ + 1, !.closing = @ + 1,
                                 !.state["websocket"] = "closing"]
    /\ UNCHANGED <<chanVars, client, web>>

\* The socket's 'open' event: the waiting connect() promises reset
\* reconnectAttempts, remove their listeners and resolve.
WebSocketOpen ==
    /\ wire.state["websocket"] = "connecting"
    /\ wire' = [wire EXCEPT !.state["websocket"] = "open",
                            !.reconnectAttempts = IF wire.opening > 0 THEN 0 ELSE @,
                            !.opening = 0]
    /\ UNCHANGED <<chanVars, client, web>>

\* The socket's 'error' event: the waiting connect() promises remove their
\* listeners and reject; the listener of setupEventHandlers only logs.
WebSocketError ==
    /\ wire.state["websocket"] \in {"connecting", "open"}
    /\ wire.opening > 0
    /\ wire' = [wire EXCEPT !.opening = 0]
    /\ UNCHANGED <<chanVars, client, web>>

\* The socket's 'close' event, which a socket fires once: the waiting
\* disconnect() promises resolve, and the listener of setupEventHandlers sets
\* a timer for attemptReconnect when autoReconnect is on and
\* reconnectAttempts is below maxReconnectAttempts.
WebSocketClose ==
    /\ wire.state["websocket"] # "closed"
    /\ wire' = [wire EXCEPT
                   !.state["websocket"] = "closed",
                   !.closing = 0,
                   !.timers = IF /\ wire.autoReconnect
                                 /\ wire.reconnectAttempts < maxReconnectAttempts
                              THEN @ + 1 ELSE @]
    /\ UNCHANGED <<chanVars, client, web>>

\* The reconnect timer fires: attemptReconnect() counts the attempt and calls
\* connect() on the same socket.
attemptReconnect ==
    /\ wire.timers > 0
    /\ wire' = [wire EXCEPT
                   !.timers = @ - 1,
                   !.reconnectAttempts = @ + 1,
                   !.opening = IF isConnected("websocket") THEN @ ELSE @ + 1]
    /\ UNCHANGED <<chanVars, client, web>>

(* --------------------------- zodRpc middleware ------------------------- *)
\* An HTTP request: its method and its parsed body. The body is absent (no
\* JSON was parsed) or an object whose fields are each absent or present; a
\* string field may also be the empty string.
HttpBody(methodId, traceId, callerId, targetId, payload) ==
    [methodId |-> methodId, traceId |-> traceId, callerId |-> callerId,
     targetId |-> targetId, payload |-> payload]
HttpBodies ==
    {HttpBody(m, tid, c, t, v) :
        m \in {<<"m1">>, <<>>}, tid \in {<<PeerTrace>>, <<>>},
        c \in {<<PeerId>>, <<>>, <<"">>}, t \in {<<"svcA">>, <<>>}, v \in Values}
HttpRequests ==
    {[method |-> "POST", body |-> <<b>>] : b \in HttpBodies}
    \cup {[method |-> "POST", body |-> <<>>],
          [method |-> "GET", body |-> <<HttpBody(<<"m1">>, <<PeerTrace>>, <<PeerId>>,
                                                 <<"svcA">>, "good")>>]}

\* !message.field of a string field and of the trace id
NotText(field) == Len(field) = 0 \/ Falsy(field[1])
NotTrace(field) == Len(field) = 0

\* What the middleware has done for a request: called next(), or answered
\* with a status and a JSON body (an envelope, or error and message), or it
\* is awaiting the invoke it made (call).
NewExchange(req) ==
    [req |-> req, pc |-> "done", call |-> 0, next |-> FALSE, status |-> 0,
     answer |-> NoMessage, error |-> "", message |-> NoMsg]

\* The middleware up to its first await, without the invoke it may make.
zodRpcStart(req) ==
    IF req.method # "POST"
    THEN [NewExchange(req) EXCEPT !.next = TRUE]
    ELSE IF Len(req.body) = 0
    THEN [NewExchange(req) EXCEPT
             !.status = 500, !.error = "RPC handler error",
             !.message = Msg("Cannot read properties of undefined", 0, "")]
    ELSE IF \/ NotText(req.body[1].methodId) \/ NotTrace(req.body[1].traceId)
            \/ NotText(req.body[1].callerId) \/ NotText(req.body[1].targetId)
    THEN [NewExchange(req) EXCEPT
             !.status = 400, !.error = "Invalid RPC message",
             !.message = Msg("Missing required fields: methodId, traceId, callerId, targetId",
                             0, "")]
    ELSE [NewExchange(req) EXCEPT !.pc = "invoke", !.call = Len(calls) + 1]

\* zodRpc(channel)(req, res, next) up to its first await.
Middleware(req, nonce) ==
    /\ Len(web) < MaxPosts
    /\ web' = Append(web, zodRpcStart(req))
    /\ IF zodRpcStart(req).pc = "invoke"
       THEN Invoke(req.body[1].targetId[1], req.body[1].methodId[1],
                   req.body[1].payload, "none", "none", <<>>, nonce)
       ELSE UNCHANGED <<chanVars, client, wire>>

\* Mutant of zodRpcAnswer: the envelope keeps the request's callerId and
\* targetId where they were.
zodRpcAnswerUnswapped(exchange, outcome) ==
    IF outcome.state = "resolved"
    THEN [exchange EXCEPT
             !.pc = "done", !.status = 200,
             !.answer = RPCMessage(exchange.req.body[1].callerId[1],
                                   exchange.req.body[1].targetId[1],
                                   exchange.req.body[1].traceId[1],
                                   exchange.req.body[1].methodId[1],
                                   ValPayload(outcome.value), "response")]
    ELSE [exchange EXCEPT
             !.pc = "done", !.status = 500, !.error = "RPC handler error",
             !.message = IF IsError(outcome.error) THEN outcome.error.message
                         ELSE Msg("Unknown error", 0, "")]

\* The middleware after `await channel.invoke(...)`: res.json(envelope) when
\* the call resolved, the catch block's res.status(500).json(...) otherwise.
zodRpcAnswer(exchange, outcome) ==
    IF outcome.state = "resolved"
    THEN [exchange EXCEPT
             !.pc = "done", !.status = 200,
             !.answer = RPCMessage(exchange.req.body[1].targetId[1],
                                   exchange.req.body[1].callerId[1],
                                   exchange.req.body[1].traceId[1],
                                   exchange.req.body[1].methodId[1],
                                   ValPayload(outcome.value), "response")]
    ELSE [exchange EXCEPT
             !.pc = "done", !.status = 500, !.error = "RPC handler error",
             !.message = IF IsError(outcome.error) THEN outcome.error.message
                         ELSE Msg("Unknown error", 0, "")]

MiddlewareResume(i) ==
    /\ i \in DOMAIN web
    /\ web[i].pc = "invoke"
    /\ calls[web[i].call].outcome.state # "pending"
    /\ web' = [web EXCEPT ![i] = zodRpcAnswer(@, calls[web[i].call].outcome)]
    /\ UNCHANGED <<chanVars, client, wire>>

(* -------------- a client's HTTPTransport against zodRpc --------------- *)
\* The requests a client Channel (PeerId) passes to its HTTPTransport.
HttpCalls ==
    {RPCMessage(PeerId, t, <<PeerId, k>>, m, ValPayload(v), "request") :
        t \in TargetIds, k \in 1..MaxSends, m \in MethodIds, v \in Values}

\* fetch(url, {method: 'POST', body: JSON.stringify(message)}) as the server
\* sees it once the JSON body is parsed.
PostOf(message) ==
    [method |-> "POST",
     body |-> <<HttpBody(<<message.methodId>>, <<message.traceId>>,
                         <<message.callerId>>, <<message.targetId>>,
                         message.payload.val)>>]

\* The POST of a send whose fetch is under way reaches the middleware.
HttpPost(i, nonce) ==
    /\ i \in DOMAIN wire.sends
    /\ wire.sends[i].kind = "http"
    /\ wire.sends[i].outcome = Pending
    /\ \A j \in DOMAIN web : web[j].req # PostOf(wire.sends[i].msg)
    /\ Middleware(PostOf(wire.sends[i].msg), nonce)

\* HTTPTransport.send after `await fetchFn(...)`, the response being the
\* middleware's answer: a status that is not ok throws a TransportError made
\* of the status alone; otherwise the JSON body is handed to the registered
\* handler and send() resolves.
HttpAnswer(i, j) ==
    /\ i \in DOMAIN wire.sends
    /\ wire.sends[i].kind = "http"
    /\ wire.sends[i].outcome = Pending
    /\ j \in DOMAIN web
    /\ web[j].pc = "done"
    /\ web[j].req = PostOf(wire.sends[i].msg)
    /\ wire' =
          IF web[j].status = 200
          THEN [wire EXCEPT
                   !.sends[i].outcome = Resolved(""),
                   !.handed = IF "http" \in wire.handlers
                              THEN Append(@, web[j].answer) ELSE @]
          ELSE [wire EXCEPT
                   !.sends[i].outcome = Rejected(TransportError(
                       Msg("HTTP request failed with status {status}: {statusText}",
                           web[j].status, ""),
                       NoTrace))]
    /\ UNCHANGED <<chanVars, client, web>>

\* Promise.all(sendPromises).catch(reject) of the client's invoke: the call
\* rejects with the value its transport's send() rejected with.
ClientRejection(send) == send.outcome.error

(* --------------------------- the specification ------------------------- *)
Init ==
    /\ methods = EmptyMap
    /\ pendingCalls = EmptyMap
    /\ services = EmptyMap
    /\ transports = <<>>
    /\ connected = FALSE
    /\ handlers = {}
    /\ calls = <<>>
    /\ sent = EmptyBag
    /\ connectTask = IdleConnect
    /\ disconnectTask = 0
    /\ requests = <<>>
    /\ budget = [connects |-> MaxConnects, disconnects |-> MaxDisconnects,
                 publishes |-> MaxPublish]
    /\ client = NoClient
    /\ wire = NoWire
    /\ web = <<>>

\* The environment's steps, each over the inputs a specification draws from.
Connects(argLists) ==
    \/ \E args \in argLists : ConnectStart(args)
    \/ \E ok \in BOOLEAN : ConnectResume(ok)

Disconnects ==
    \/ DisconnectStart
    \/ \E ok \in BOOLEAN : DisconnectResume(ok)

\* invoke() where Date.now() and Math.random() give a trace id no earlier
\* call of the Channel had.
Invokes(targets, inputSchemas, outputSchemas, timeouts) ==
    \E t \in targets, m \in MethodIds, v \in Values, i \in inputSchemas,
       o \in outputSchemas, ms \in timeouts, n \in 1..MaxNonce :
          /\ generateTraceId(n) \notin UsedTraceIds
          /\ Invoke(t, m, v, i, o, ms, n)
          /\ UNCHANGED web

\* invoke() whatever Date.now() and Math.random() give: nothing in the code
\* compares a new trace id with the earlier ones.
InvokesAnyId(targets, inputSchemas, outputSchemas, timeouts) ==
    \E t \in targets, m \in MethodIds, v \in Values, i \in inputSchemas,
       o \in outputSchemas, ms \in timeouts, n \in 1..MaxNonce :
          Invoke(t, m, v, i, o, ms, n) /\ UNCHANGED web

SendRejects(failures) ==
    \E c \in 1..MaxCalls, t \in TransportIds, e \in failures : SendReject(c, t, e)

Delivers(types) ==
    \E message \in InboundMessages :
        message.type \in types /\ HandleMessage(message)

RequestSteps ==
    \/ \E r \in 1..MaxRequests, res \in HandlerResults : RequestHandlerDone(r, res)
    \/ \E r \in 1..MaxRequests :
          \/ RequestSendSettle(r, TRUE, NoError)
          \/ \E e \in SendFailures : RequestSendSettle(r, FALSE, e)

\* Outbound calls to a peer: nothing is published, so every valid invoke
\* takes the remote path.
CallNext ==
    \/ Connects({<<"t1", "t2">>})
    \/ Disconnects
    \/ Invokes({"svcB"}, {"strict"}, {"none"}, {<<>>, <<50>>})
    \/ \E c \in 1..MaxCalls : TimerFire(c)
    \/ SendRejects({PlainError("Not connected")})
    \/ Delivers({"response", "error"})

CallSpec == Init /\ [][CallNext]_vars

\* The same with fair timers: a timer that stays armed fires.
FairCallSpec ==
    CallSpec /\ \A c \in 1..MaxCalls : WF_vars(TimerFire(c))

\* Calls to methods published on the Channel itself, and to others.
LocalNext ==
    \/ \E d \in Definitions : PublishMethod(d)
    \/ Connects({<<"t1", "t2">>})
    \/ Invokes(TargetIds, CallerSchemas, CallerSchemas, {<<50>>})
    \/ \E c \in 1..MaxCalls, res \in HandlerResults : LocalHandlerDone(c, res)
    \/ \E c \in 1..MaxCalls : TimerFire(c)

LocalSpec == Init /\ [][LocalNext]_vars

\* Requests of a peer.
InboundNext ==
    \/ \E d \in Definitions : PublishMethod(d)
    \/ Connects(ConnectArgs)
    \/ Disconnects
    \/ Delivers({"request"})
    \/ RequestSteps

InboundSpec == Init /\ [][InboundNext]_vars

\* Remote calls made with and without a caller's outputSchema, and their
\* responses.
OutputNext ==
    \/ Connects({<<"t1">>})
    \/ Disconnects
    \/ Invokes({"svcB"}, {"none"}, CallerSchemas, {<<50>>})
    \/ \E c \in 1..MaxCalls : TimerFire(c)
    \/ Delivers({"response"})

OutputSpec == Init /\ [][OutputNext]_vars

\* Local calls whose handler returns or throws anything.
LocalThrowNext ==
    \/ \E d \in Definitions : PublishMethod(d)
    \/ Invokes(TargetIds, {"none"}, CallerSchemas, {<<>>})
    \/ \E c \in 1..MaxCalls, res \in AnyHandlerResults : LocalHandlerDone(c, res)

LocalThrowSpec == Init /\ [][LocalThrowNext]_vars

\* Target and method ids that contain the ':' the registry key is joined with.
ColonTargets == {"a", "a:b"}
ColonMethods == {"c", "b:c"}
ColonDefinitions ==
    {MethodDefinition(t, m, "any", "any") : t \in ColonTargets, m \in ColonMethods}
ColonRequests ==
    {RPCMessage(PeerId, t, PeerTrace, m, ValPayload("good"), "request") :
        t \in ColonTargets, m \in ColonMethods}

\* One method published, then looked up by invoke and by inbound requests.
RegistryNext ==
    \/ \E d \in ColonDefinitions : PublishMethod(d)
    \/ Connects({<<"t1">>})
    \/ \E t \in ColonTargets, m \in ColonMethods, n \in 1..MaxNonce :
          /\ generateTraceId(n) \notin UsedTraceIds
          /\ Invoke(t, m, "good", "none", "none", <<>>, n)
          /\ UNCHANGED web
    \/ \E c \in 1..MaxCalls, res \in HandlerResults : LocalHandlerDone(c, res)
    \/ \E message \in ColonRequests : HandleMessage(message)
    \/ RequestSteps

RegistrySpec == Init /\ [][RegistryNext]_vars

\* A client built by createRPCClient, its default target and its calls.
ClientNext ==
    \/ Connects({<<"t1">>})
    \/ \E config \in {<<>>, <<"svcB">>} : BuildClient(config)
    \/ \E target \in TargetIds : SetDefaultTarget(target)
    \/ \E service \in TargetIds, methodName \in MethodNames, v \in Values,
          options \in CallOptions, n \in 1..MaxNonce :
             /\ generateTraceId(n) \notin UsedTraceIds
             /\ ClientCall(service, methodName, v, options, n)

ClientSpec == Init /\ [][ClientNext]_vars

\* send() on the built-in transports in every state of their connection.
TransportNext ==
    \/ \E k \in BuiltIn, state \in {"connecting", "open", "closing", "closed"} :
          SocketEvent(k, state)
    \/ \E k \in BuiltIn : TransportOnMessage(k)
    \/ \E k \in BuiltIn, message \in SendMessages, under \in {"ok", "throws"} :
          TransportSend(k, message, under)
    \/ \E i \in 1..MaxSends, result \in {"ok", "notok", "throws"} : FetchSettle(i, result)

TransportSpec == Init /\ [][TransportNext]_vars

DeliversMalformed == \E message \in MalformedMessages : HandleMessage(message)

\* Inbound messages of every kind, malformed ones included, with handlers
\* that throw and sends that fail, while calls of the Channel's own are
\* pending.
DispatchNext ==
    \/ \E d \in Definitions : PublishMethod(d)
    \/ Connects({<<"t1">>})
    \/ Invokes({"svcB"}, {"none"}, {"none"}, {<<50>>})
    \/ Delivers({"request", "response", "error"})
    \/ DeliversMalformed
    \/ RequestSteps

DispatchSpec == Init /\ [][DispatchNext]_vars

DeliversErrors == \E message \in RoundTripEnvelopes : HandleMessage(message)

\* Remote calls answered by the error envelopes of a serving Channel.
RoundTripNext ==
    \/ Connects({<<"t1">>})
    \/ Invokes({"svcB"}, {"none"}, {"none"}, {<<50>>})
    \/ \E c \in 1..MaxCalls : TimerFire(c)
    \/ DeliversErrors

RoundTripSpec == Init /\ [][RoundTripNext]_vars

\* Remote calls whose trace ids are whatever the clock and the random source
\* give, the same value twice included.
CollisionNext ==
    \/ Connects({<<"t1">>})
    \/ InvokesAnyId({"svcB"}, {"none"}, {"none"}, {<<>>, <<50>>})
    \/ \E c \in 1..MaxCalls : TimerFire(c)
    \/ Delivers({"response", "error"})

CollisionSpec == Init /\ [][CollisionNext]_vars

\* A server Channel behind the zodRpc middleware.
MiddlewareNext ==
    \/ \E d \in Definitions : PublishMethod(d)
    \/ Connects({<<"t1">>})
    \/ \E req \in HttpRequests, n \in 1..MaxNonce :
          generateTraceId(n) \notin UsedTraceIds /\ Middleware(req, n)
    \/ \E c \in 1..MaxCalls, res \in HandlerResults : LocalHandlerDone(c, res)
    \/ \E c \in 1..MaxCalls : TimerFire(c)
    \/ \E i \in 1..MaxPosts : MiddlewareResume(i)

MiddlewareSpec == Init /\ [][MiddlewareNext]_vars

\* Remote calls whose input passes through a caller's schema that transforms
\* it, on transports that answer later or inside send().
EnvelopeNext ==
    \/ Connects({<<"t1", "t2">>})
    \/ Invokes({"svcB"}, {"none", "strict", "trim"}, {"none"}, {<<>>})
    \/ \E m \in MethodIds, v \in Values, i \in {"none", "trim"}, n \in 1..MaxNonce,
          answer \in Values :
          /\ generateTraceId(n) \notin UsedTraceIds
          /\ InvokeLoopback("svcB", m, v, i, "none", <<>>, n, answer)
    \/ \E c \in 1..MaxCalls : TimerFire(c)
    \/ Delivers({"response"})

EnvelopeSpec == Init /\ [][EnvelopeNext]_vars

\* The Channel after construction, with room for several connect() calls.
FanoutInit ==
    /\ methods = EmptyMap
    /\ pendingCalls = EmptyMap
    /\ services = EmptyMap
    /\ transports = <<>>
    /\ connected = FALSE
    /\ handlers = {}
    /\ calls = <<>>
    /\ sent = EmptyBag
    /\ connectTask = IdleConnect
    /\ disconnectTask = 0
    /\ requests = <<>>
    /\ budget = [connects |-> MaxReconnects, disconnects |-> MaxDisconnects,
                 publishes |-> MaxPublish]
    /\ client = NoClient
    /\ wire = NoWire
    /\ web = <<>>

\* Transports attached one connect() call at a time, and remote calls made
\* in between.
FanoutNext ==
    \/ Connects({<<"t1">>, <<"t2">>})
    \/ Disconnects
    \/ Invokes({"svcB"}, {"none"}, {"none"}, {<<>>})
    \/ \E c \in 1..MaxCalls : TimerFire(c)
    \/ SendRejects({PlainError("Not connected")})

FanoutSpec == FanoutInit /\ [][FanoutNext]_vars

\* Remote calls on two transports whose sends resolve or reject, one by one,
\* before and after a reply.
SendNext ==
    \/ Connects({<<"t1", "t2">>})
    \/ Invokes({"svcB"}, {"none"}, {"none"}, {<<>>})
    \/ \E c \in 1..MaxCalls, t \in TransportIds : SendResolve(c, t)
    \/ SendRejects(SendFailures)
    \/ Delivers({"response", "error"})

SendSpec == Init /\ [][SendNext]_vars

\* Requests whose handler returns or throws anything, and whose response
\* may fail to be sent.
ClassifyNext ==
    \/ \E d \in Definitions : PublishMethod(d)
    \/ Connects({<<"t1">>})
    \/ Delivers({"request"})
    \/ \E r \in 1..MaxRequests, res \in AnyHandlerResults : RequestHandlerDone(r, res)
    \/ \E r \in 1..MaxRequests :
          \/ RequestSendSettle(r, TRUE, NoError)
          \/ \E e \in SendFailures : RequestSendSettle(r, FALSE, e)

ClassifySpec == Init /\ [][ClassifyNext]_vars

\* Replies that arrive for no call, for a call of another trace id, or after
\* the call's timer fired, on a Channel with methods and a snapshot.
OrphanNext ==
    \/ \E d \in Definitions : PublishMethod(d)
    \/ Connects({<<"t1">>})
    \/ Invokes({"svcB"}, {"none"}, {"none"}, {<<50>>})
    \/ \E c \in 1..MaxCalls : TimerFire(c)
    \/ Delivers({"response", "error"})

OrphanSpec == Init /\ [][OrphanNext]_vars

\* Local calls through every combination of the caller's and the method's
\* schemas, transforming ones included.
CheckpointNext ==
    \/ \E d \in Definitions : PublishMethod(d)
    \/ Invokes(TargetIds, {"none", "strict", "trim"}, {"none", "strict", "trim"}, {<<>>})
    \/ \E c \in 1..MaxCalls, res \in AnyHandlerResults : LocalHandlerDone(c, res)

CheckpointSpec == Init /\ [][CheckpointNext]_vars

\* The Channel after construction, with room for several publishMethod()
\* calls.
RepublishInit ==
    /\ methods = EmptyMap
    /\ pendingCalls = EmptyMap
    /\ services = EmptyMap
    /\ transports = <<>>
    /\ connected = FALSE
    /\ handlers = {}
    /\ calls = <<>>
    /\ sent = EmptyBag
    /\ connectTask = IdleConnect
    /\ disconnectTask = 0
    /\ requests = <<>>
    /\ budget = [connects |-> MaxConnects, disconnects |-> MaxDisconnects,
                 publishes |-> MaxRepublish]
    /\ client = NoClient
    /\ wire = NoWire
    /\ web = <<>>

\* Definitions that differ in their schemas under the same pair of ids.
RepublishDefinitions ==
    {MethodDefinition(t, m, i, "any") :
        t \in ColonTargets, m \in ColonMethods, i \in MethodSchemas}

\* Methods published one after another, before and after connect(), with a
\* call pending.
RepublishNext ==
    \/ \E d \in RepublishDefinitions : PublishMethod(d)
    \/ Connects({<<"t1">>})
    \/ Invokes({"svcB"}, {"none"}, {"none"}, {<<>>})
    \/ \E c \in 1..MaxCalls : TimerFire(c)

RepublishSpec == RepublishInit /\ [][RepublishNext]_vars

\* connect() calls with none, one or two transports whose own connect()
\* resolves or rejects, around publishes and disconnects.
ConnectNext ==
    \/ \E d \in Definitions : PublishMethod(d)
    \/ Connects(ConnectArgs)
    \/ Disconnects

ConnectSpec == FanoutInit /\ [][ConnectNext]_vars

\* Remote calls made with every kind of timeout argument: none, zero and a
\* positive number.
TimeoutNext ==
    \/ Connects({<<"t1">>})
    \/ Invokes({"svcB"}, {"none"}, {"none"}, Timeouts)
    \/ \E c \in 1..MaxCalls : TimerFire(c)
    \/ Delivers({"response"})

TimeoutSpec == Init /\ [][TimeoutNext]_vars

\* A WebSocket transport constructed with autoReconnect on or off.
ReconnectInit ==
    /\ methods = EmptyMap
    /\ pendingCalls = EmptyMap
    /\ services = EmptyMap
    /\ transports = <<>>
    /\ connected = FALSE
    /\ handlers = {}
    /\ calls = <<>>
    /\ sent = EmptyBag
    /\ connectTask = IdleConnect
    /\ disconnectTask = 0
    /\ requests = <<>>
    /\ budget = [connects |-> MaxConnects, disconnects |-> MaxDisconnects,
                 publishes |-> MaxPublish]
    /\ client = NoClient
    /\ \E auto \in BOOLEAN : wire = [NoWire EXCEPT !.autoReconnect = auto]
    /\ web = <<>>

\* The life of a WebSocket transport: connect() and disconnect() calls, the
\* events of its socket, its reconnect timer and sends in between.
ReconnectNext ==
    \/ WebSocketConnect
    \/ WebSocketDisconnect
    \/ WebSocketOpen
    \/ WebSocketError
    \/ WebSocketClose
    \/ attemptReconnect
    \/ TransportOnMessage("websocket")
    \/ \E message \in SendMessages, under \in {"ok", "throws"} :
          TransportSend("websocket", message, under)

ReconnectSpec == ReconnectInit /\ [][ReconnectNext]_vars

\* A client's HTTPTransport whose requests are served by this Channel behind
\* the zodRpc middleware.
HttpNext ==
    \/ \E d \in Definitions : PublishMethod(d)
    \/ \E state \in {"open", "closed"} : SocketEvent("http", state)
    \/ TransportOnMessage("http")
    \/ \E message \in HttpCalls :
          /\ \A i \in DOMAIN wire.sends : wire.sends[i].msg.traceId # message.traceId
          /\ TransportSend("http", message, "ok")
    \/ \E i \in 1..MaxSends, n \in 1..MaxNonce :
          generateTraceId(n) \notin UsedTraceIds /\ HttpPost(i, n)
    \/ \E c \in 1..MaxCalls, res \in HandlerResults : LocalHandlerDone(c, res)
    \/ \E c \in 1..MaxCalls : TimerFire(c)
    \/ \E j \in 1..MaxPosts : MiddlewareResume(j)
    \/ \E i \in 1..MaxSends, j \in 1..MaxPosts : HttpAnswer(i, j)

HttpSpec == Init /\ [][HttpNext]_vars

\* Every step of the Channel and of its environment.
Next == CallNext \/ LocalNext \/ InboundNext \/ OutputNext \/ CollisionNext
        \/ RoundTripNext \/ LocalThrowNext \/ DispatchNext
        \/ RegistryNext \/ TransportNext \/ ClientNext \/ MiddlewareNext
        \/ EnvelopeNext \/ FanoutNext \/ SendNext \/ ClassifyNext
        \/ OrphanNext \/ CheckpointNext \/ RepublishNext
        \/ ConnectNext \/ TimeoutNext \/ ReconnectNext \/ HttpNext

Spec == Init /\ [][Next]_vars

(* ------------------------------ the claims ----------------------------- *)
IsSettled(c) == calls[c].outcome.state # "pending"
IsReply(m) == m.type \in {"response", "error"}
ConnectionClosed(traceId) == TimeoutError(Msg("Connection closed", 0, ""), traceId)
NoTransportError == PlainError("No transports connected")

\* C1: a call's promise settles at most once, and once it is settled a response
\* or error envelope bearing its traceId changes no state.
C1_SettledCallIgnoresReplies ==
    [][/\ \A c \in DOMAIN calls :
            IsSettled(c) => calls'[c].outcome = calls[c].outcome
       /\ \A m \in InboundMessages :
            (/\ IsReply(m)
             /\ \E c \in DOMAIN calls : IsSettled(c) /\ calls[c].traceId = m.traceId
             /\ HandleMessage(m))
            => UNCHANGED vars]_vars

\* C2: the step that starts disconnect() rejects every remote call still
\* pending with TimeoutError('Connection closed') carrying the call's own
\* traceId, leaves none of their timers armed, and empties the pending table.
C2_DisconnectDrains ==
    [][budget'.disconnects < budget.disconnects =>
          /\ pendingCalls' = EmptyMap
          /\ \A c \in DOMAIN calls :
                (calls[c].path = "remote" /\ ~IsSettled(c)) =>
                    /\ calls'[c].outcome = Rejected(ConnectionClosed(calls[c].traceId))
                    /\ calls'[c].outcome.error.code = "TIMEOUT_ERROR"
                    /\ calls'[c].timer = "cancelled"]_vars

C2_Witness ==
    \E c \in DOMAIN calls :
        /\ calls[c].outcome = Rejected(ConnectionClosed(calls[c].traceId))
        /\ calls[c].timer = "cancelled"
        /\ pendingCalls = EmptyMap
        /\ budget.disconnects < MaxDisconnects

\* C3: a response or error envelope settles only the pending call registered
\* under its own traceId, with the envelope's payload (or the error its
\* payload carries), and leaves every other call and every other pending
\* entry as they were.
C3_RepliesSettleOwnCall ==
    [][\A m \in InboundMessages :
          (/\ IsReply(m)
           /\ Len(calls') = Len(calls)
           /\ (calls' # calls \/ pendingCalls' # pendingCalls)
           /\ HandleMessage(m)) =>
             /\ \A c \in DOMAIN calls :
                  IF calls[c].traceId = m.traceId
                  THEN (~IsSettled(c) /\ m.traceId \in DOMAIN pendingCalls) =>
                          IF m.type = "response"
                          THEN calls'[c].outcome = Resolved(m.payload.val)
                          ELSE /\ calls'[c].outcome.state = "rejected"
                               /\ calls'[c].outcome.error.traceId = calls[c].traceId
                               /\ m.payload.err.code # "" =>
                                    calls'[c].outcome.error.code = m.payload.err.code
                  ELSE calls'[c] = calls[c]
             /\ \A tid \in DOMAIN pendingCalls :
                  tid # m.traceId =>
                     tid \in DOMAIN pendingCalls' /\ pendingCalls'[tid] = pendingCalls[tid]]_vars

\* Two calls pending together; the one issued second has settled with a
\* response's payload while the first is still pending.
C3_Witness ==
    /\ Len(calls) = 2
    /\ calls[1].path = "remote" /\ ~IsSettled(1)
    /\ calls[1].traceId \in DOMAIN pendingCalls
    /\ calls[2].outcome = Resolved("bad")

\* C4: when a call's timer fires while the call is unsettled, the call rejects
\* with TimeoutError('Method call timed out after {timeoutMs}ms') carrying its
\* own traceId, timeoutMs being the caller's (non-zero) timeout or, without
\* one, the Channel's default; and no pending entry is left under its traceId.
C4_TimerFireRejects ==
    [][\A c \in DOMAIN calls :
          (calls[c].timer = "armed" /\ calls'[c].timer = "fired") =>
             /\ calls[c].traceId \notin DOMAIN pendingCalls'
             /\ (~IsSettled(c) /\ (calls[c].timeout = <<>> \/ calls[c].timeout[1] > 0)) =>
                   /\ calls'[c].outcome.state = "rejected"
                   /\ calls'[c].outcome.error.code = "TIMEOUT_ERROR"
                   /\ calls'[c].outcome.error.traceId = calls[c].traceId
                   /\ calls'[c].outcome.error.message =
                         Msg("Method call timed out after {ms}ms",
                             IF calls[c].timeout = <<>> THEN DefaultTimeout
                             ELSE calls[c].timeout[1],
                             "")]_vars

C4_Witness ==
    \E c \in DOMAIN calls :
        /\ calls[c].timer = "fired"
        /\ calls[c].timeout = <<50>>
        /\ calls[c].outcome.error.code = "TIMEOUT_ERROR"
        /\ calls[c].outcome.error.message.ms = 50

\* C5: under fair timers every invoke that took the remote path eventually
\* settles, whatever the transports and the peer do.
C5_RemoteCallsSettle ==
    \A c \in 1..MaxCalls :
        (c \in DOMAIN calls /\ calls[c].path = "remote") ~>
            (c \in DOMAIN calls /\ IsSettled(c))

\* A remote call whose request went out on both transports has settled.
C5_Witness ==
    \E c \in DOMAIN calls :
        /\ calls[c].path = "remote"
        /\ IsSettled(c)
        /\ \E e \in DOMAIN sent : e.msg.traceId = calls[c].traceId /\ e.tr = "t2"

\* C6: a remote-path invoke made with no transport attached fails with the
\* no-transport error, registers no pending entry and arms no timer.
C6_NoTransportRegistersNothing ==
    [][(Len(calls') = Len(calls) + 1
        /\ calls'[Len(calls')].outcome = Rejected(NoTransportError)) =>
          /\ pendingCalls' = pendingCalls
          /\ calls'[Len(calls')].timer = "none"]_vars

\* C7: every pending-table entry and every armed timer belongs to a call whose
\* promise has not settled.
C7_EntriesAndTimersOfUnsettledCalls ==
    /\ \A tid \in DOMAIN pendingCalls : ~IsSettled(pendingCalls[tid])
    /\ \A c \in DOMAIN calls : calls[c].timer = "armed" => ~IsSettled(c)

ValidForCaller(inputSchema, input) ==
    inputSchema = "none" \/ Parse(inputSchema, input) # Fail
NewestCall == calls'[Len(calls')]

\* C8: an invoke of a (targetId, methodId) registered on this Channel makes no
\* send, sets no pending entry and arms no timer, with or without transports
\* and connected or not; and when the handler's result passes the method's and
\* the caller's output schemas the call resolves with it.
C8_LocalInvokeStaysLocal ==
    [][/\ Len(calls') = Len(calls) + 1 =>
            \A t \in TargetIds, m \in MethodIds, v \in Values, i \in CallerSchemas,
               o \in CallerSchemas, ms \in Timeouts, n \in 1..MaxNonce :
                (/\ Key(t, m) \in DOMAIN methods
                 /\ ValidForCaller(i, v)
                 /\ Invoke(t, m, v, i, o, ms, n)) =>
                    /\ sent' = sent
                    /\ pendingCalls' = pendingCalls
                    /\ NewestCall.path = "local"
                    /\ NewestCall.timer = "none"
                    /\ NewestCall.sends = {}
       /\ \A c \in DOMAIN calls :
            (calls[c].path = "local" /\ Len(calls') = Len(calls)
             /\ calls'[c] # calls[c]) =>
               /\ sent' = sent
               /\ pendingCalls' = pendingCalls
               /\ calls'[c].timer = "none"
               /\ \A res \in HandlerResults :
                    (/\ res.kind = "return"
                     /\ Parse(calls[c].method.output, res.val) # Fail
                     /\ ValidForCaller(calls[c].outputSchema, res.val)
                     /\ LocalHandlerDone(c, res)) =>
                        calls'[c].outcome = Resolved(res.val)]_vars

\* A local call has resolved on a Channel that never had a transport and was
\* never connected.
C8_Witness ==
    \E c \in DOMAIN calls :
        /\ calls[c].path = "local"
        /\ calls[c].outcome = Resolved("good")
        /\ transports = <<>> /\ ~connected /\ handlers = {}
        /\ sent = EmptyBag /\ pendingCalls = EmptyMap

\* C9: an invoke whose input fails the caller's inputSchema rejects with a
\* VALIDATION_ERROR carrying the trace id just generated; no handler is
\* called, nothing is sent, no pending entry is set and no timer armed.
C9_InvalidInputDoesNothingElse ==
    [][Len(calls') = Len(calls) + 1 =>
          \A t \in TargetIds, m \in MethodIds, v \in Values, i \in CallerSchemas,
             o \in CallerSchemas, ms \in Timeouts, n \in 1..MaxNonce :
              (~ValidForCaller(i, v) /\ Invoke(t, m, v, i, o, ms, n)) =>
                  /\ NewestCall.outcome.state = "rejected"
                  /\ NewestCall.outcome.error.code = "VALIDATION_ERROR"
                  /\ NewestCall.outcome.error.traceId = generateTraceId(n)
                  /\ NewestCall.handlerInput = ""
                  /\ NewestCall.timer = "none"
                  /\ NewestCall.sends = {}
                  /\ UNCHANGED <<methods, pendingCalls, services, transports,
                                 connected, handlers, sent, connectTask,
                                 disconnectTask, requests>>]_vars

\* An invalid input was rejected although its method is registered here, and
\* another although transports are attached.
C9_Witness ==
    /\ Len(calls) = 2
    /\ \A c \in {1, 2} : calls[c].outcome.error.code = "VALIDATION_ERROR"
                        /\ calls[c].path = "invalid"
    /\ Len(transports) = 2
    /\ methods # EmptyMap
    /\ sent = EmptyBag

\* The error envelope for a request whose method is not registered.
NotFoundEnvelope(m) ==
    RPCMessage(ChannelId, m.callerId, m.traceId, m.methodId,
               ErrPayload([name |-> "MethodNotFoundError",
                           code |-> "METHOD_NOT_FOUND",
                           message |-> Msg("Method '{id}' not found", 0, m.methodId),
                           traceId |-> m.traceId]),
               "error")
IsUnregisteredRequest(m) ==
    m.type = "request" /\ Key(m.targetId, m.methodId) \notin DOMAIN methods

C11_ResponseOutputValidated ==
    [][\A m \in InboundMessages :
          (/\ m.type = "response"
           /\ m.traceId \in DOMAIN pendingCalls
           /\ HandleMessage(m)) =>
             LET c == pendingCalls[m.traceId]
             IN  /\ m.traceId \notin DOMAIN pendingCalls'
                 /\ calls'[c].timer # "armed"
                 /\ (~IsSettled(c) /\ calls[c].outputSchema # "none") =>
                       IF Parse(calls[c].outputSchema, m.payload.val) # Fail
                       THEN calls'[c].outcome =
                               Resolved(Parse(calls[c].outputSchema, m.payload.val))
                       ELSE /\ calls'[c].outcome.state = "rejected"
                            /\ calls'[c].outcome.error.code = "VALIDATION_ERROR"
                            /\ calls'[c].outcome.error.name = "ValidationError"
                            /\ calls'[c].outcome.error.traceId = calls[c].traceId]_vars

\* A call with an outputSchema was sent, answered with a payload the schema
\* refuses, and rejected; its entry is gone and its timer cancelled.
C11_Witness ==
    \E c \in DOMAIN calls :
        /\ calls[c].outputSchema = "strict"
        /\ calls[c].outcome.error.code = "VALIDATION_ERROR"
        /\ calls[c].outcome.error.message.text = "Output validation failed: {error}"
        /\ calls[c].timer = "cancelled"
        /\ calls[c].traceId \notin DOMAIN pendingCalls
        /\ \E e \in DOMAIN sent : e.msg.traceId = calls[c].traceId

InFlight(c) == calls[c].path = "remote" /\ ~IsSettled(c)

C13_ErrorRoundTrips ==
    [][\A m \in RoundTripEnvelopes :
          (/\ m.traceId \in DOMAIN pendingCalls
           /\ ~IsSettled(pendingCalls[m.traceId])
           /\ HandleMessage(m)) =>
             LET got == calls'[pendingCalls[m.traceId]].outcome.error
                 carried == m.payload.err
             IN  /\ carried.code # Undefined => got.code = carried.code
                 /\ carried.message.text # Undefined => got.message = carried.message
                 /\ carried.code = Undefined => got.code = "UNKNOWN_ERROR"
                 /\ carried.message.text = Undefined =>
                       got.message = Msg("Unknown error occurred", 0, "")]_vars

\* C14: every rejection of a remote-path invoke is a structured error of the
\* taxonomy, one that carries a code.
C14_RemoteRejectionsStructured ==
    \A c \in DOMAIN calls :
        (calls[c].path = "remote" /\ calls[c].outcome.state = "rejected") =>
            /\ IsRPCError(calls[c].outcome.error)
            /\ calls[c].outcome.error.code # ""

\* C15: on the local path the call rejects with the very value its handler
\* threw, whatever that value is.
C15_LocalThrowPassesThrough ==
    [][\A c \in DOMAIN calls, res \in AnyHandlerResults :
          (res.kind = "throw" /\ LocalHandlerDone(c, res)) =>
              calls'[c].outcome = Rejected(res.err)]_vars

\* A dispatch in which something failed: a null envelope, or a request that
\* was answered with an error envelope.
DispatchFailed(r) ==
    /\ requests[r].pc = "done"
    /\ requests[r].msg.type = "<null>" \/ requests[r].reply.type = "error"

C17_RegistryKeyedByPair ==
    [][/\ \A d \in ColonDefinitions :
            PublishMethod(d) =>
               \A k \in DOMAIN methods :
                   <<methods[k].targetId, methods[k].id>> # <<d.targetId, d.id>> =>
                       k \in DOMAIN methods' /\ methods'[k] = methods[k]
       /\ \A t \in ColonTargets, m \in ColonMethods, n \in 1..MaxNonce :
            (/\ Len(calls') = Len(calls) + 1
             /\ Invoke(t, m, "good", "none", "none", <<>>, n)
             /\ NewestCall.path = "local") =>
                 NewestCall.method.targetId = t /\ NewestCall.method.id = m
       /\ \A message \in ColonRequests :
            (/\ Len(requests') = Len(requests) + 1
             /\ HandleMessage(message)
             /\ requests'[Len(requests')].method # NoMethod) =>
                 /\ requests'[Len(requests')].method.targetId = message.targetId
                 /\ requests'[Len(requests')].method.id = message.methodId]_vars

\* C18: on each built-in transport a send() made while isConnected() is false
\* rejects with a TransportError and attempts no delivery underneath.
C18_SendWhileDisconnectedRejects ==
    [][\A k \in BuiltIn, message \in SendMessages, under \in {"ok", "throws"} :
          (~isConnected(k) /\ TransportSend(k, message, under)) =>
              LET made == wire'.sends[Len(wire'.sends)]
              IN  /\ made.kind = k
                  /\ made.outcome.state = "rejected"
                  /\ made.outcome.error.name = "TransportError"
                  /\ made.outcome.error.code = "TRANSPORT_ERROR"
                  /\ wire'.attempts = wire.attempts
                  /\ wire'.handed = wire.handed]_vars

\* A WebSocket transport whose socket is closing and an HTTP transport never
\* connected have both refused a send without touching the socket or fetch.
C18_Witness ==
    /\ Len(wire.sends) = 2
    /\ wire.sends[1].kind = "websocket" /\ wire.sends[2].kind = "http"
    /\ \A i \in {1, 2} :
          /\ wire.sends[i].outcome.error.code = "TRANSPORT_ERROR"
          /\ wire.sends[i].outcome.error.message.text = NotConnectedText(wire.sends[i].kind)
    /\ wire.state["websocket"] = "closing"
    /\ wire.attempts = [k \in BuiltIn |-> 0]

\* C19: once setDefaultTarget(t) has changed the default target, a method call
\* made without options.target is channel.invoke with target t.
C19_SetDefaultTargetTakesEffect ==
    [][\A service \in TargetIds, methodName \in MethodNames, v \in Values,
         ms \in {<<>>, <<50>>, <<0>>}, n \in 1..MaxNonce :
          (/\ client.built
           /\ client.currentDefaultTarget # client.defaultTarget
           /\ ClientCall(service, methodName, v, [target |-> <<>>, timeout |-> ms], n)) =>
              Invoke(client.currentDefaultTarget, Contract(service, methodName).id, v,
                     Contract(service, methodName).input,
                     Contract(service, methodName).output, ms, n)]_vars

\* The target C20 states for a call: options.target if given, else the
\* service's id under 'auto', else the configured default.
StatedTarget(service, options) ==
    IF options.target # <<>> THEN options.target[1]
    ELSE IF client.defaultTarget = "auto" THEN service
    ELSE client.defaultTarget

\* C20 as stated: every method call is channel.invoke with the stated target,
\* methodId '<service.id>.<methodName>', the contract's schemas and
\* options.timeout.
C20_CallArgumentsAsStated ==
    [][\A service \in TargetIds, methodName \in MethodNames, v \in Values,
         options \in CallOptions, n \in 1..MaxNonce :
          ClientCall(service, methodName, v, options, n) =>
              Invoke(StatedTarget(service, options), service \o "." \o methodName, v,
                     "strict", "any", options.timeout, n)]_vars

\* C20, amended: the same, the target being options.target only when it is
\* given and not the empty string.
C20_CallArguments ==
    [][\A service \in TargetIds, methodName \in MethodNames, v \in Values,
         options \in CallOptions, n \in 1..MaxNonce :
          ClientCall(service, methodName, v, options, n) =>
              Invoke(IF options.target = <<"">>
                     THEN StatedTarget(service, [options EXCEPT !.target = <<>>])
                     ELSE StatedTarget(service, options),
                     service \o "." \o methodName, v,
                     "strict", "any", options.timeout, n)]_vars

\* A call of svcB.get with options {target: 'svcA', timeout: 50} went out as a
\* request for 'svcB.get' addressed to svcA, and another without options on a
\* client configured with defaultTarget 'svcB' went to svcB.
C20_Witness ==
    /\ client.built /\ client.defaultTarget = "svcB"
    /\ Len(calls) = 2
    /\ calls[1].timeout = <<50>> /\ calls[2].timeout = <<>>
    /\ \E e \in DOMAIN sent :
          /\ e.msg.traceId = calls[1].traceId
          /\ e.msg.methodId = "svcB.get" /\ e.msg.targetId = "svcA"
    /\ \E e \in DOMAIN sent :
          /\ e.msg.traceId = calls[2].traceId
          /\ e.msg.methodId = "svcA.get" /\ e.msg.targetId = "svcB"

\* A request the middleware passes on to the Channel: a POST whose body has
\* all four fields.
IsRpcPost(req) ==
    /\ req.method = "POST"
    /\ Len(req.body) = 1
    /\ ~NotText(req.body[1].methodId) /\ ~NotTrace(req.body[1].traceId)
    /\ ~NotText(req.body[1].callerId) /\ ~NotText(req.body[1].targetId)

RequestEnvelopeOf(targetId, methodId, input, nonce) ==
    [callerId |-> ChannelId, targetId |-> targetId,
     traceId |-> generateTraceId(nonce), methodId |-> methodId,
     payload |-> ValPayload(input), type |-> "request"]

\* C22: a remote-path invoke passes to send() only the one request envelope
\* with callerId = the Channel's id, the given targetId and methodId, the
\* call's trace id and the caller's input as given, not as its schema parsed
\* it; and the pending entry is set before send() is called, so a response
\* handed over inside send() finds it and resolves the call.
C22_RequestEnvelope ==
    [][\A t \in TargetIds, m \in MethodIds, v \in Values,
         i \in {"none", "strict", "trim"}, n \in 1..MaxNonce :
          /\ (/\ ValidForCaller(i, v)
              /\ Key(t, m) \notin DOMAIN methods
              /\ Len(calls') = Len(calls) + 1
              /\ Invoke(t, m, v, i, "none", <<>>, n)) =>
                 /\ \A e \in DOMAIN sent' :
                       CopiesIn(e, sent') > CopiesIn(e, sent) =>
                           e.msg = RequestEnvelopeOf(t, m, v, n)
                 /\ transports # <<>> =>
                       \E e \in DOMAIN sent' : CopiesIn(e, sent') > CopiesIn(e, sent)
                 /\ pendingCalls'[generateTraceId(n)] = Len(calls')
          /\ \A answer \in Values :
                (/\ Len(calls') = Len(calls) + 1
                 /\ InvokeLoopback(t, m, v, i, "none", <<>>, n, answer)) =>
                    /\ \A e \in DOMAIN sent' :
                          CopiesIn(e, sent') > CopiesIn(e, sent) =>
                              e.msg = RequestEnvelopeOf(t, m, v, n)
                    /\ NewestCall.outcome = Resolved(answer)
                    /\ NewestCall.timer = "cancelled"
                    /\ generateTraceId(n) \notin DOMAIN pendingCalls']_vars

\* A call whose input went through a transforming schema was sent with the
\* input as given, and a call answered inside send() has resolved.
C22_Witness ==
    /\ Len(calls) = 2
    /\ \E e \in DOMAIN sent :
          e.msg.traceId = calls[1].traceId /\ e.msg.payload = ValPayload("bad")
    /\ calls[1].traceId \in DOMAIN pendingCalls
    /\ calls[2].outcome = Resolved("good")
    /\ calls[2].timer = "cancelled"
    /\ \E e \in DOMAIN sent : e.msg.traceId = calls[2].traceId /\ e.tr = "t2"

\* C23: a remote invoke calls send() with its request envelope once on every
\* transport in the set at that moment, those added by earlier connect()
\* calls included, and all these sends are under way together when invoke
\* returns its promise.
C23_FanOutToEveryTransport ==
    [][\A t \in TargetIds, m \in MethodIds, v \in Values, n \in 1..MaxNonce :
          (/\ Key(t, m) \notin DOMAIN methods
           /\ Len(calls') = Len(calls) + 1
           /\ Invoke(t, m, v, "none", "none", <<>>, n)) =>
              /\ \A x \in TransportIds :
                    CopiesIn([tr |-> x, msg |-> RequestEnvelopeOf(t, m, v, n)], sent')
                      = IF x \in Range(transports) THEN 1 ELSE 0
              /\ \A e \in DOMAIN sent :
                    e.msg.traceId # generateTraceId(n) /\ CopiesIn(e, sent') = CopiesIn(e, sent)
              /\ NewestCall.sends = Range(transports)]_vars

\* Two connect() calls attached one transport each, and a call made after
\* the second went out on both, both sends still under way.
C23_Witness ==
    /\ budget.connects = 0
    /\ transports = <<"t1", "t2">>
    /\ \E c \in DOMAIN calls :
          /\ calls[c].sends = {"t1", "t2"}
          /\ \A x \in {"t1", "t2"} :
                \E e \in DOMAIN sent : e.tr = x /\ e.msg.traceId = calls[c].traceId

\* C24: when a send of the request rejects while the call is unsettled, the
\* call rejects with that very value, whether or not another transport's send
\* resolved; when the call had settled before, by a reply or by an earlier
\* send failure, its outcome stays; the rejection touches nothing else.
C24_SendRejectionFailsCall ==
    [][\A c \in DOMAIN calls, t \in TransportIds, e \in SendFailures :
          SendReject(c, t, e) =>
             /\ calls'[c].outcome =
                   IF IsSettled(c) THEN calls[c].outcome ELSE Rejected(e)
             /\ \A d \in DOMAIN calls : d # c => calls'[d] = calls[d]
             /\ UNCHANGED <<pendingCalls, sent, requests, transports>>]_vars

\* One call was rejected by the failure of its send on t2 after its send on
\* t1 had resolved; the other was resolved by a response and a send failure
\* after that left it resolved.
C24_Witness ==
    /\ Len(calls) = 2
    /\ calls[1].delivered = {"t1"} /\ calls[1].sends = {}
    /\ calls[1].outcome = Rejected(PlainError("Not connected"))
    /\ calls[2].outcome = Resolved("good")
    /\ calls[2].delivered = {} /\ calls[2].sends # {"t1", "t2"}

\* The response envelope for a request and a validated output.
ResponseEnvelopeOf(message, output) ==
    [callerId |-> ChannelId, targetId |-> message.callerId,
     traceId |-> message.traceId, methodId |-> message.methodId,
     payload |-> ValPayload(output), type |-> "response"]

\* C25: for an inbound request of a registered method the handler is called
\* at most once and only with the payload as the method's input schema parsed
\* it; and when the handler returned a result its output schema accepts, then
\* by the time handleRequest returns the response envelope with that output
\* has been passed to send() on every attached transport.
C25_RequestServed ==
    [][/\ \A r \in DOMAIN requests :
            /\ requests'[r].pc = "handler" => requests[r].pc = "handler"
            /\ requests'[r].handlerInput = requests[r].handlerInput
       /\ \A r \in DOMAIN requests' :
            (requests'[r].pc = "handler" \/ requests'[r].handlerInput # "") =>
               /\ Key(requests'[r].msg.targetId, requests'[r].msg.methodId)
                     \in DOMAIN methods
               /\ Parse(requests'[r].method.input, requests'[r].msg.payload.val) # Fail
               /\ requests'[r].handlerInput =
                     Parse(requests'[r].method.input, requests'[r].msg.payload.val)
       /\ \A r \in DOMAIN requests :
            (/\ requests[r].pc # "done" /\ requests'[r].pc = "done"
             /\ requests'[r].validatedOutput # <<>>) =>
                \A t \in Range(transports') :
                    BagIn([tr |-> t,
                           msg |-> ResponseEnvelopeOf(requests[r].msg,
                                                      requests'[r].validatedOutput[1])],
                          sent')]_vars

\* The error envelope request r is answered with in this step carries the
\* request's traceId and methodId and goes to the request's callerId.
ErrorAddressed(r) ==
    /\ requests'[r].reply.type = "error"
    /\ requests'[r].reply.traceId = requests'[r].msg.traceId
    /\ requests'[r].reply.methodId = requests'[r].msg.methodId
    /\ requests'[r].reply.targetId = requests'[r].msg.callerId
ErrorCode(r) == requests'[r].reply.payload.err.code
ErrorMessage(r) == requests'[r].reply.payload.err.message

\* The code and message C26 states for a thrown value: its own when it is a
\* structured error, otherwise INTERNAL_ERROR with its message or 'Unknown
\* error'.
StatedClass(thrown) ==
    IF IsRPCError(thrown) THEN [code |-> thrown.code, message |-> thrown.message]
    ELSE [code |-> "INTERNAL_ERROR",
          message |-> IF IsError(thrown) THEN thrown.message
                      ELSE Msg("Unknown error", 0, "")]

\* The same, a ZodError thrown by the handler counting as a validation
\* failure.
ActualClass(thrown) ==
    IF IsZodError(thrown)
    THEN [code |-> "VALIDATION_ERROR", message |-> thrown.message]
    ELSE StatedClass(thrown)

Class(thrown, asStated) ==
    IF asStated THEN StatedClass(thrown) ELSE ActualClass(thrown)

RequestFailuresClassified(asStated) ==
    /\ \A m \in InboundMessages :
          (/\ m.type = "request"
           /\ Len(requests') = Len(requests) + 1
           /\ HandleMessage(m)
           /\ Key(m.targetId, m.methodId) \in DOMAIN methods
           /\ Parse(methods[Key(m.targetId, m.methodId)].input, m.payload.val) = Fail) =>
              /\ ErrorAddressed(Len(requests'))
              /\ ErrorCode(Len(requests')) = "VALIDATION_ERROR"
    /\ \A r \in DOMAIN requests, res \in AnyHandlerResults :
          RequestHandlerDone(r, res) =>
             IF res.kind = "throw"
             THEN /\ ErrorAddressed(r)
                  /\ ErrorCode(r) = Class(res.err, asStated).code
                  /\ ErrorMessage(r) = Class(res.err, asStated).message
             ELSE Parse(requests[r].method.output, res.val) = Fail =>
                     /\ ErrorAddressed(r)
                     /\ ErrorCode(r) = "VALIDATION_ERROR"
    /\ \A r \in DOMAIN requests, e \in SendFailures :
          (requests[r].pc = "sendResponse" /\ RequestSendSettle(r, FALSE, e)) =>
             /\ ErrorAddressed(r)
             /\ ErrorCode(r) = Class(e, asStated).code
             /\ ErrorMessage(r) = Class(e, asStated).message

\* C26 as stated: a failed request of a registered method is answered with an
\* error envelope for the request's traceId and methodId, addressed to its
\* callerId, whose code is the thrown structured error's own, VALIDATION_ERROR
\* when the payload or the handler's output failed its schema, and otherwise
\* INTERNAL_ERROR with the thrown value's message or 'Unknown error'.
C26_FailuresClassifiedAsStated ==
    [][RequestFailuresClassified(TRUE)]_vars

\* C26, amended: the same, and a ZodError the handler itself throws is
\* answered with VALIDATION_ERROR too.
C26_FailuresClassified ==
    [][RequestFailuresClassified(FALSE)]_vars

\* A handler threw a structured error of its own and the envelope carries
\* that error's code.
C26_Witness ==
    \E r \in DOMAIN requests :
        /\ requests[r].handlerInput # ""
        /\ requests[r].pc = "done"
        /\ requests[r].reply.type = "error"
        /\ requests[r].reply.payload.err.code = "CUSTOM_ERROR"
        /\ requests[r].reply.targetId = PeerId
        /\ BagIn([tr |-> "t1", msg |-> requests[r].reply], sent)

\* C27: a response or error envelope whose traceId has no entry in the
\* pending table changes nothing: no call settles, nothing is sent, no
\* dispatch fails, and the table, the registry, the transports, the connected
\* flag and the snapshots stay as they are.
C27_OrphanReplyIsNoOp ==
    [][\A m \in InboundMessages :
          (/\ IsReply(m)
           /\ m.traceId \notin DOMAIN pendingCalls
           /\ HandleMessage(m)) =>
              /\ UNCHANGED <<calls, sent, requests>>
              /\ UNCHANGED <<pendingCalls, methods, transports, connected, services>>
              /\ UNCHANGED vars]_vars

\* A state in which such replies arrive: a transport delivers, one call has
\* timed out so that its trace id has no entry any more, another is pending
\* under a different trace id, a method is registered and the snapshot taken.
C27_Witness ==
    /\ handlers # {}
    /\ connected /\ ChannelId \in DOMAIN services
    /\ methods # EmptyMap
    /\ Len(calls) = 2
    /\ calls[1].timer = "fired" /\ calls[1].traceId \notin DOMAIN pendingCalls
    /\ calls[2].traceId \in DOMAIN pendingCalls /\ ~IsSettled(2)
    /\ \E e \in DOMAIN sent : e.msg.traceId = calls[1].traceId

\* A rejection with VALIDATION_ERROR that carries the given trace id.
IsValidationRejection(outcome, traceId) ==
    /\ outcome.state = "rejected"
    /\ outcome.error.code = "VALIDATION_ERROR"
    /\ outcome.error.traceId = traceId

\* C28: on the local path the handler is called only when the input passed
\* the caller's inputSchema (if given) and the method's input schema; the
\* call resolves only with the handler's result as parsed by the method's
\* output schema and then by the caller's outputSchema (if given); and a
\* failure of any of the four rejects with a VALIDATION_ERROR carrying the
\* call's trace id.
C28_LocalCheckpoints ==
    [][/\ Len(calls') = Len(calls) + 1 =>
            \A t \in TargetIds, m \in MethodIds, v \in Values,
               i \in {"none", "strict", "trim"}, o \in {"none", "strict", "trim"},
               n \in 1..MaxNonce :
                (Key(t, m) \in DOMAIN methods /\ Invoke(t, m, v, i, o, <<>>, n)) =>
                    IF \/ ~ValidForCaller(i, v)
                       \/ Parse(methods[Key(t, m)].input, v) = Fail
                    THEN /\ IsValidationRejection(NewestCall.outcome, generateTraceId(n))
                         /\ NewestCall.handlerInput = ""
                    ELSE /\ NewestCall.outcome = Pending
                         /\ NewestCall.handlerInput = Parse(methods[Key(t, m)].input, v)
       /\ \A c \in DOMAIN calls :
            /\ calls'[c].handlerInput = calls[c].handlerInput
            /\ \A res \in AnyHandlerResults :
                 (res.kind = "return" /\ LocalHandlerDone(c, res)) =>
                    LET own == Parse(calls[c].method.output, res.val)
                    IN  IF own = Fail
                        THEN IsValidationRejection(calls'[c].outcome, calls[c].traceId)
                        ELSE IF calls[c].outputSchema = "none"
                        THEN calls'[c].outcome = Resolved(own)
                        ELSE IF Parse(calls[c].outputSchema, own) = Fail
                        THEN IsValidationRejection(calls'[c].outcome, calls[c].traceId)
                        ELSE calls'[c].outcome =
                                Resolved(Parse(calls[c].outputSchema, own))
            /\ (calls[c].path = "local" /\ calls'[c].outcome.state = "resolved") =>
                  /\ calls[c].handlerInput # ""
                  /\ \E res \in AnyHandlerResults :
                        /\ res.kind = "return"
                        /\ Parse(calls[c].method.output, res.val) # Fail
                        /\ calls'[c].outcome.value \in
                              {Parse(calls[c].method.output, res.val),
                               Parse(calls[c].outputSchema,
                                     Parse(calls[c].method.output, res.val))}]_vars

\* One local call stopped at the method's input schema without its handler
\* being called; another resolved with the result as the caller's
\* transforming outputSchema returned it.
C28_Witness ==
    /\ Len(calls) = 2
    /\ calls[1].path = "local" /\ calls[1].handlerInput = ""
    /\ IsValidationRejection(calls[1].outcome, calls[1].traceId)
    /\ calls[2].path = "local" /\ calls[2].outputSchema = "trim"
    /\ calls[2].method.output = "strict"
    /\ calls[2].outcome = Resolved(Transformed("good"))

\* C29: publishing a definition makes a lookup of its (targetId, methodId)
\* return it, whatever was there, and leaves the lookup of every other pair
\* as it was, so that every pair yields the definition last published under
\* it; nothing is sent, and the pending table, the transports, the connected
\* flag and the snapshot already taken stay as they are.
C29_PublishLastWriteWins ==
    [][\A d \in RepublishDefinitions :
          PublishMethod(d) =>
             /\ Lookup(d.targetId, d.id)' = d
             /\ \A t \in ColonTargets, m \in ColonMethods :
                   <<t, m>> # <<d.targetId, d.id>> => Lookup(t, m)' = Lookup(t, m)
             /\ UNCHANGED <<sent, pendingCalls, calls, transports, handlers,
                            connected, services, requests>>]_vars

\* C30: whenever connect() comes to await a transport's connect(), the
\* dispatch handler has been registered on that transport; the Channel
\* becomes connected, and the snapshot is taken, only in the step in which
\* the last supplied transport's connect() resolves (or at once when none
\* was supplied); and a connect() one of whose transports rejects ends
\* without marking the Channel connected or taking a snapshot.
C30_ConnectOrder ==
    [][/\ (connectTask'.idx > 0 /\ connectTask' # connectTask) =>
            /\ connectTask'.args[connectTask'.idx] \in handlers'
            /\ connectTask'.args[connectTask'.idx] \in Range(transports')
            /\ \A i \in 1..(connectTask'.idx - 1) : connectTask'.args[i] \in handlers
       /\ ((connected' /\ ~connected) \/ services' # services) =>
            /\ connected'
            /\ services' = publishServiceInfo
            /\ connectTask' = IdleConnect
            /\ \/ ConnectStart(<<>>)
               \/ connectTask.idx = Len(connectTask.args) /\ ConnectResume(TRUE)
       /\ ConnectResume(FALSE) =>
            /\ connected' = connected
            /\ services' = services
            /\ connectTask' = IdleConnect]_vars

\* connect(t1, t2) has finished: both transports hold the dispatch handler,
\* the Channel is connected and the snapshot lists a published method.
C30_Witness ==
    /\ connected
    /\ connectTask = IdleConnect
    /\ transports = <<"t1", "t2">>
    /\ handlers = {"t1", "t2"}
    /\ ChannelId \in DOMAIN services
    /\ services[ChannelId] = {MethodInfo("m1")}

\* disconnect() finishes in this step: it returned, or an exception left it.
DisconnectFinishes ==
    \/ budget'.disconnects < budget.disconnects /\ disconnectTask' = 0
    \/ disconnectTask > 0 /\ disconnectTask' = 0

\* C31: whenever disconnect() finishes, whether each transport's own
\* disconnect() resolved or rejected, disconnect() has been called on every
\* attached transport, the transport set is empty and the Channel is marked
\* disconnected.
C31_DisconnectFinishesClean ==
    [][DisconnectFinishes =>
          /\ disconnectTask = Len(transports)
          /\ transports' = <<>>
          /\ connected' = FALSE]_vars

\* C32: a remote-path invoke made while the Channel is not marked connected
\* (before any connect() completed, while connect() awaits a transport, or
\* after disconnect()) passes no request envelope to send() on any transport.
C32_ConnectedGatesCalls ==
    [][\A t \in TargetIds, m \in MethodIds, v \in Values, n \in 1..MaxNonce :
          (/\ ~connected
           /\ Key(t, m) \notin DOMAIN methods
           /\ Len(calls') = Len(calls) + 1
           /\ Invoke(t, m, v, "none", "none", <<>>, n)) =>
              /\ sent' = sent
              /\ NewestCall.sends = {}]_vars

\* C33 as stated: getAvailableMethods(channelId) is the snapshot of the most recent
\* connect(): exactly the methods registered before that connect() was
\* invoked. A method published later, also while connect() awaits its
\* transports, does not appear until a later connect(); publishing leaves
\* every result as it was; and before the first snapshot every id's result
\* is empty.
C33_SnapshotOfRegistryAtConnect ==
    [][/\ services' # services =>
            /\ getAvailableMethods(ChannelId)' =
                  IF connectTask.idx > 0 THEN connectTask.invokedWith
                  ELSE RegisteredInfo
            /\ \A id \in TargetIds \cup {PeerId} :
                  getAvailableMethods(id)' = getAvailableMethods(id)
       /\ \A d \in Definitions :
            PublishMethod(d) =>
               \A id \in TargetIds \cup {PeerId, ChannelId} :
                   getAvailableMethods(id)' = getAvailableMethods(id)
       /\ services = EmptyMap =>
            \A id \in TargetIds \cup {PeerId, ChannelId} : getAvailableMethods(id) = {}]_vars

\* connect() completes in this step.
ConnectCompletes ==
    \/ ConnectStart(<<>>)
    \/ connectTask.idx > 0 /\ connectTask.idx = Len(connectTask.args) /\ ConnectResume(TRUE)

\* C33, amended: getAvailableMethods(channelId) is the snapshot taken when
\* the most recent connect() completed: exactly the methods registered at
\* that moment, those published while it awaited its transports included.
\* Only a completing connect() changes it; publishing leaves every result as
\* it was; and before the first snapshot every id's result is empty.
C33_SnapshotOfRegistryAtCompletion ==
    [][/\ ConnectCompletes => getAvailableMethods(ChannelId)' = RegisteredInfo
       /\ services' # services =>
            /\ ConnectCompletes
            /\ \A id \in TargetIds \cup {PeerId} :
                  getAvailableMethods(id)' = getAvailableMethods(id)
       /\ \A d \in Definitions :
            PublishMethod(d) =>
               \A id \in TargetIds \cup {PeerId, ChannelId} :
                   getAvailableMethods(id)' = getAvailableMethods(id)
       /\ services = EmptyMap =>
            \A id \in TargetIds \cup {PeerId, ChannelId} : getAvailableMethods(id) = {}]_vars

\* A connect() completed on an empty registry and a method was published
\* afterwards: the snapshot still lists nothing, and for a service id never
\* published the result is empty.
C33_Witness ==
    /\ connected
    /\ connectTask = IdleConnect
    /\ ChannelId \in DOMAIN services
    /\ getAvailableMethods(ChannelId) = {}
    /\ methods # EmptyMap
    /\ getAvailableMethods("svcA") = {}

\* The timeout C34 states for a call: the caller's number when one was
\* given, the Channel's default otherwise.
StatedTimeout(timeout) == IF timeout = <<>> THEN DefaultTimeout ELSE timeout[1]

\* C34: for every numeric timeout the caller gives to invoke, 0 included, the
\* pending call's timer is armed with exactly that value and the timeout
\* message reports it; the Channel's default is used only when none is given.
C34_TimeoutOverrideHonoured ==
    [][/\ \A t \in TargetIds, m \in MethodIds, v \in Values, ms \in Timeouts,
            n \in 1..MaxNonce :
            (/\ Key(t, m) \notin DOMAIN methods
             /\ Len(calls') = Len(calls) + 1
             /\ Invoke(t, m, v, "none", "none", ms, n)) =>
                /\ NewestCall.timer = "armed"
                /\ NewestCall.timeoutMs = StatedTimeout(ms)
       /\ \A c \in DOMAIN calls :
            (calls[c].timer = "armed" /\ calls'[c].timer = "fired" /\ ~IsSettled(c)) =>
               calls'[c].outcome =
                  Rejected(TimeoutError(TimedOutMsg(StatedTimeout(calls[c].timeout)),
                                        calls[c].traceId))]_vars

\* The transports on which the send of request r's present reply has
\* resolved: those the send loop has gone past.
AnsweredOn(r) ==
    IF requests[r].pc \in {"sendResponse", "sendError"}
    THEN {transports[i] : i \in (1..(requests[r].idx - 1)) \cap DOMAIN transports}
    ELSE {}

\* C35: for an inbound request the Channel emits on each attached transport
\* at most one reply envelope for the request's traceId, and never both a
\* response and an error envelope, also when the send of the response fails
\* on one of several transports: once a reply went out on a transport, no
\* further reply for that request is passed to send() on it.
C35_AtMostOneReply ==
    [][\A r \in DOMAIN requests :
          \A t \in AnsweredOn(r), e \in DOMAIN sent' :
              (/\ e.tr = t
               /\ IsReply(e.msg)
               /\ e.msg.traceId = requests[r].msg.traceId) =>
                  CopiesIn(e, sent') = CopiesIn(e, sent)]_vars

\* disconnect() completes in this step: it returned without an exception.
DisconnectCompletes == DisconnectFinishes /\ transports' = <<>>

\* C36: however invoke() calls interleave with a running disconnect(), once
\* disconnect() has completed the pending-call table is empty: no call made
\* before its completion is left registered, waiting for its timer.
C36_DisconnectLeavesNothingPending ==
    [][DisconnectCompletes =>
          /\ pendingCalls' = EmptyMap
          /\ \A c \in DOMAIN calls' : calls'[c].timer # "armed"]_vars

\* C37: a transport whose connect() rejects is not left in the Channel's
\* transport set and keeps no dispatch handler, so that a later remote invoke
\* does not fan out to it and its messages are not dispatched.
C37_RejectedTransportDetached ==
    [][(connectTask.idx > 0 /\ ConnectResume(FALSE)) =>
          /\ connectTask.args[connectTask.idx] \notin Range(transports')
          /\ connectTask.args[connectTask.idx] \notin handlers']_vars

\* disconnect() has completed and no connect() was called since.
Disconnected ==
    /\ budget.disconnects < MaxDisconnects
    /\ disconnectTask = 0
    /\ connectTask.idx = 0
    /\ transports = <<>>
    /\ ~connected

\* C38: after disconnect() has completed, a message delivered by a transport
\* that was attached has no effect on the Channel: no handler is called for
\* an inbound request, and no result is computed only to be dropped because
\* there is no transport to reply on.
C38_NoDispatchAfterDisconnect ==
    [][\A m \in InboundMessages :
          (Disconnected /\ HandleMessage(m)) =>
              /\ UNCHANGED <<calls, pendingCalls, sent>>
              /\ \A r \in DOMAIN requests' \ DOMAIN requests :
                    /\ requests'[r].pc # "handler"
                    /\ requests'[r].handlerInput = ""]_vars

\* C39: after WebSocketTransport.disconnect() was called deliberately the
\* transport schedules no reconnection attempt: a reconnection is scheduled
\* only by a close that no disconnect() asked for, and reconnectAttempts
\* never exceeds maxReconnectAttempts.
C39_NoReconnectAfterDisconnect ==
    [][/\ (wire.closing > 0 /\ WebSocketClose) => wire'.timers = wire.timers
       /\ wire'.timers > wire.timers =>
             /\ wire.closing = 0
             /\ wire.autoReconnect
             /\ wire.reconnectAttempts < maxReconnectAttempts
       /\ wire'.reconnectAttempts <= maxReconnectAttempts]_vars

\* C40: when a call goes through an HTTPTransport to a server behind zodRpc
\* and the server-side invoke fails (the handler throws, validation fails or
\* the method is not registered), the client's invoke rejects with an error
\* that carries the server error's code and message, not a generic transport
\* failure.
C40_ServerErrorReachesClient ==
    [][\A i \in DOMAIN wire.sends, j \in DOMAIN web :
          (/\ HttpAnswer(i, j)
           /\ web[j].call # 0
           /\ calls[web[j].call].outcome.state = "rejected") =>
              /\ wire'.sends[i].outcome.state = "rejected"
              /\ ClientRejection(wire'.sends[i]).code =
                    calls[web[j].call].outcome.error.code
              /\ ClientRejection(wire'.sends[i]).message =
                    calls[web[j].call].outcome.error.message]_vars

====
